---- MODULE Spec2Model ----
(***************************************************************************)
(* Model of alibi_detect/utils/saving.py: save_detector, load_detector and *)
(* fetch_detector acting on one detector directory.                        *)
(*                                                                         *)
(* Python values are modelled as follows.                                  *)
(*   - an optional value is a tuple: None is <<>>, a present value v is    *)
(*     <<v>>;                                                              *)
(*   - a dict is the sequence of its <<key, value>> items in insertion     *)
(*     order;                                                              *)
(*   - a model object is a record with a cls field (its Python class); the *)
(*     object None in a model position is [cls |-> "NoneType"];            *)
(*   - a detector is a record of its attributes.                           *)
(* Hidden files (names starting with '.') are never written by the code    *)
(* and are not modelled.                                                   *)
(***************************************************************************)
EXTENDS Integers, Sequences, FiniteSets, TLC

VARIABLES fs, op, res, prev, nops, saves_only, saves_clean, run

vars == <<fs, op, res, prev, nops, saves_only, saves_clean, run>>

\* Bound on the number of operations in one behaviour.
MaxOps == 2

\* The number of load_detector calls run step by step.
MaxLoads == 1

None == <<>>

Some(v) == <<v>>

NoneModel == [cls |-> "NoneType"]

DEFAULT_DETECTORS ==
  {"AdversarialAE", "IForest", "Mahalanobis", "OutlierAE", "OutlierAEGMM",
   "OutlierProphet", "OutlierSeq2Seq", "OutlierVAE", "OutlierVAEGMM",
   "SpectralResidual"}

\* ---------------------------------------------------------------- dicts

\* d[key]
Get(d, key) == d[CHOOSE i \in 1..Len(d) : d[i][1] = key][2]

\* ---------------------------------------------------------------- pickle

\* pickle.dump of a dict: a protocol header followed by the flat stream
\* key, value, key, value, ... of its items in insertion order.
pickle_dump(d) ==
  [proto |-> "pickle",
   stream |-> [i \in 1..(2 * Len(d)) |->
                 IF i % 2 = 1 THEN d[(i + 1) \div 2][1] ELSE d[i \div 2][2]]]

\* pickle.load: rebuilds the items pairwise from the stream.
pickle_load(b) ==
  [i \in 1..(Len(b.stream) \div 2) |-> <<b.stream[2 * i - 1], b.stream[2 * i]>>]

\* ---------------------------------------------------------------- files

\* The detector directory: whether it exists, its regular files, whether
\* its model/ subdirectory exists, and the files of model/.
NoDir == [isdir |-> FALSE, top |-> <<>>, model_isdir |-> FALSE, model |-> <<>>]

\* Files are functions from the names present to contents.
Put(files, name, content) ==
  [n \in (DOMAIN files) \cup {name} |-> IF n = name THEN content ELSE files[n]]

\* As write_top, but the file is opened with 'ab': the dump is appended to
\* what the file already holds.
write_top_append(f, name, content) ==
  [f EXCEPT !.top =
     Put(f.top, name,
         IF name \in DOMAIN f.top
         THEN [content EXCEPT !.stream = f.top[name].stream \o @]
         ELSE content)]

\* open(path, 'wb') followed by one dump: the file holds exactly content.
write_top(f, name, content) == [f EXCEPT !.top = Put(f.top, name, content)]

write_model(f, name, content) == [f EXCEPT !.model = Put(f.model, name, content)]

\* os.mkdir(filepath)
mkdir(f) == [f EXCEPT !.isdir = TRUE]

\* os.mkdir(model_dir)
mkdir_model(f) == [f EXCEPT !.model_isdir = TRUE]

\* os.listdir(model_dir)
listdir_model(f) == DOMAIN f.model

\* ---------------------------------------------------------------- keras

KerasModelClasses ==
  {"Model", "Sequential", "AE", "VAE", "AEGMM", "VAEGMM", "Seq2Seq", "DenseHidden"}

\* isinstance(m, tf.keras.Sequential)
IsSequential(m) == m.cls = "Sequential"

\* isinstance(m, tf.keras.Model)
IsKerasModel(m) == m.cls \in KerasModelClasses

\* Weights of layers that a constructor creates itself.
InitWeights == "init"

\* The weights of a composite model are those of its layers: the networks
\* it wraps and the layers it owns.
get_weights(m) ==
  CASE m.cls = "AE" -> <<m.encoder.encoder_net.w, m.decoder.decoder_net.w>>
    [] m.cls = "VAE" -> <<m.encoder.encoder_net.w, m.decoder.decoder_net.w, m.own>>
    [] m.cls = "AEGMM" -> <<m.encoder.w, m.decoder.w, m.gmm_density.w>>
    [] m.cls = "VAEGMM" ->
         <<m.encoder.encoder_net.w, m.decoder.w, m.gmm_density.w, m.own>>
    [] m.cls = "Seq2Seq" -> <<m.threshold_net.w, m.own>>
    [] m.cls = "DenseHidden" -> <<m.model.w, m.own>>
    [] OTHER -> <<m.w>>

set_weights(m, w) ==
  CASE m.cls = "AE" ->
         [m EXCEPT !.encoder.encoder_net.w = w[1], !.decoder.decoder_net.w = w[2]]
    [] m.cls = "VAE" ->
         [m EXCEPT !.encoder.encoder_net.w = w[1], !.decoder.decoder_net.w = w[2],
                   !.own = w[3]]
    [] m.cls = "AEGMM" ->
         [m EXCEPT !.encoder.w = w[1], !.decoder.w = w[2], !.gmm_density.w = w[3]]
    [] m.cls = "VAEGMM" ->
         [m EXCEPT !.encoder.encoder_net.w = w[1], !.decoder.w = w[2],
                   !.gmm_density.w = w[3], !.own = w[4]]
    [] m.cls = "Seq2Seq" -> [m EXCEPT !.threshold_net.w = w[1], !.own = w[2]]
    [] m.cls = "DenseHidden" -> [m EXCEPT !.model.w = w[1], !.own = w[2]]
    [] OTHER -> [m EXCEPT !.w = w[1]]

\* model.save(path): the HDF5 file holds the architecture and the weights.
h5_save(m) == [fmt |-> "h5", config |-> m.cls, weights |-> m.w]

\* tf.keras.models.load_model(path)
h5_load(c) == [cls |-> c.config, w |-> c.weights]

\* model.save_weights(path): the checkpoint holds the weights only.
ckpt_save(m) == [fmt |-> "ckpt", weights |-> get_weights(m)]

\* model.load_weights(path)
ckpt_load(m, c) == set_weights(m, c.weights)

\* Constructors of alibi_detect.models.autoencoder and of DenseHidden.
AE(encoder_net, decoder_net) ==
  [cls |-> "AE", encoder |-> [encoder_net |-> encoder_net],
   decoder |-> [decoder_net |-> decoder_net]]

VAE(encoder_net, decoder_net, latent_dim, beta) ==
  [cls |-> "VAE", encoder |-> [encoder_net |-> encoder_net],
   decoder |-> [decoder_net |-> decoder_net], latent_dim |-> latent_dim,
   beta |-> beta, own |-> InitWeights]

AEGMM(encoder_net, decoder_net, gmm_density_net, n_gmm, recon_features) ==
  [cls |-> "AEGMM", encoder |-> encoder_net, decoder |-> decoder_net,
   gmm_density |-> gmm_density_net, n_gmm |-> n_gmm,
   recon_features |-> recon_features]

VAEGMM(encoder_net, decoder_net, gmm_density_net, n_gmm, latent_dim, recon_features, beta) ==
  [cls |-> "VAEGMM", encoder |-> [encoder_net |-> encoder_net],
   decoder |-> decoder_net, gmm_density |-> gmm_density_net, n_gmm |-> n_gmm,
   latent_dim |-> latent_dim, recon_features |-> recon_features,
   beta |-> beta, own |-> InitWeights]

Seq2Seq(encoder_net, decoder_net, threshold_net, n_features, beta) ==
  [cls |-> "Seq2Seq", encoder |-> encoder_net, decoder |-> decoder_net,
   threshold_net |-> threshold_net, n_features |-> n_features, beta |-> beta,
   own |-> InitWeights]

EncoderLSTM(latent_dim) == [cls |-> "EncoderLSTM", latent_dim |-> latent_dim]

DecoderLSTM(latent_dim, output_dim, output_activation) ==
  [cls |-> "DecoderLSTM", latent_dim |-> latent_dim, output_dim |-> output_dim,
   output_activation |-> output_activation]

DenseHidden(model, hidden_layer, output_dim) ==
  [cls |-> "DenseHidden", model |-> model, hidden_layer |-> hidden_layer,
   output_dim |-> output_dim, own |-> InitWeights]

\* ---------------------------------------------------------------- state codec

\* tf.is_tensor(v)
is_tensor(v) == v /= None /\ v[1][1] = "tensor"

all_tensors(od) ==
  \A v \in {od.phi, od.mu, od.cov, od.L, od.log_det_cov} : is_tensor(v)

state_iforest(od) ==
  << <<"threshold", od.threshold>>,
     <<"isolationforest", od.isolationforest>> >>

state_mahalanobis(od) ==
  << <<"threshold", od.threshold>>,
     <<"n_components", od.n_components>>,
     <<"std_clip", od.std_clip>>,
     <<"start_clip", od.start_clip>>,
     <<"max_n", od.max_n>>,
     <<"cat_vars", od.cat_vars>>,
     <<"ohe", od.ohe>>,
     <<"d_abs", od.d_abs>>,
     <<"clip", od.clip>>,
     <<"mean", od.mean>>,
     <<"C", od.C>>,
     <<"n", od.n>> >>

state_ae(od) == << <<"threshold", od.threshold>> >>

state_vae(od) ==
  << <<"threshold", od.threshold>>,
     <<"score_type", od.score_type>>,
     <<"samples", od.samples>>,
     <<"latent_dim", od.vae.latent_dim>>,
     <<"beta", od.vae.beta>> >>

state_aegmm(od) ==
  << <<"threshold", od.threshold>>,
     <<"n_gmm", od.aegmm.n_gmm>>,
     <<"recon_features", od.aegmm.recon_features>>,
     <<"phi", od.phi>>,
     <<"mu", od.mu>>,
     <<"cov", od.cov>>,
     <<"L", od.L>>,
     <<"log_det_cov", od.log_det_cov>> >>

state_vaegmm(od) ==
  << <<"threshold", od.threshold>>,
     <<"samples", od.samples>>,
     <<"n_gmm", od.vaegmm.n_gmm>>,
     <<"latent_dim", od.vaegmm.latent_dim>>,
     <<"beta", od.vaegmm.beta>>,
     <<"recon_features", od.vaegmm.recon_features>>,
     <<"phi", od.phi>>,
     <<"mu", od.mu>>,
     <<"cov", od.cov>>,
     <<"L", od.L>>,
     <<"log_det_cov", od.log_det_cov>> >>

state_adv_ae(ad) ==
  << <<"threshold", ad.threshold>>,
     <<"w_model_hl", ad.w_model_hl>>,
     <<"temperature", ad.temperature>>,
     <<"hidden_layer_kld", ad.hidden_layer_kld>> >>

state_prophet(od) ==
  << <<"model", od.model>>,
     <<"cap", od.cap>> >>

state_sr(od) ==
  << <<"threshold", od.threshold>>,
     <<"window_amp", od.window_amp>>,
     <<"window_local", od.window_local>>,
     <<"n_est_points", od.n_est_points>>,
     <<"n_grad_points", od.n_grad_points>> >>

state_s2s(od) ==
  << <<"threshold", od.threshold>>,
     <<"beta", od.seq2seq.beta>>,
     <<"shape", od.shape>>,
     <<"latent_dim", od.latent_dim>>,
     <<"output_activation", od.output_activation>> >>

\* The state_* function save_detector selects for a kind name.
state_of(detector_name, detector) ==
  CASE detector_name = "OutlierAE" -> state_ae(detector)
    [] detector_name = "OutlierVAE" -> state_vae(detector)
    [] detector_name = "Mahalanobis" -> state_mahalanobis(detector)
    [] detector_name = "IForest" -> state_iforest(detector)
    [] detector_name = "OutlierAEGMM" -> state_aegmm(detector)
    [] detector_name = "OutlierVAEGMM" -> state_vaegmm(detector)
    [] detector_name = "AdversarialAE" -> state_adv_ae(detector)
    [] detector_name = "OutlierProphet" -> state_prophet(detector)
    [] detector_name = "SpectralResidual" -> state_sr(detector)
    [] detector_name = "OutlierSeq2Seq" -> state_s2s(detector)

\* ---------------------------------------------------------------- save

\* A run of an operation: the directory so far, the warnings logged so far
\* and the exception raised, if any ("" when none).
Run(f) == [fs |-> f, log |-> <<>>, err |-> ""]

NoError == ""

warning(r, msg) == [r EXCEPT !.log = Append(@, msg)]

raise(r, e) == [r EXCEPT !.err = e]

\* if not os.path.isdir(filepath): logger.warning(...); os.mkdir(filepath)
ensure_dir(r) ==
  IF r.fs.isdir THEN r
  ELSE [warning(r, "Directory does not exist and is now created.")
          EXCEPT !.fs = mkdir(r.fs)]

\* model_dir = os.path.join(filepath, 'model')
\* if not os.path.isdir(model_dir): os.mkdir(model_dir)
ensure_model_dir(r) ==
  IF r.fs.model_isdir THEN r ELSE [r EXCEPT !.fs = mkdir_model(r.fs)]

\* if isinstance(net, tf.keras.Sequential): net.save(model_dir/name)
\* else: logger.warning(msg)
save_sequential(r, net, name, msg) ==
  IF IsSequential(net)
  THEN [r EXCEPT !.fs = write_model(r.fs, name, h5_save(net))]
  ELSE warning(r, msg)

\* if isinstance(m, tf.keras.Model): m.save_weights(model_dir/name)
\* else: logger.warning(msg)
save_model_weights(r, m, name, msg) ==
  IF IsKerasModel(m)
  THEN [r EXCEPT !.fs = write_model(r.fs, name, ckpt_save(m))]
  ELSE warning(r, msg)

save_tf_ae(detector, r) ==
  LET r1 == ensure_model_dir(ensure_dir(r))
      r2 == save_sequential(r1, detector.ae.encoder.encoder_net, "encoder_net.h5",
                            "No encoder saved.")
      r3 == save_sequential(r2, detector.ae.decoder.decoder_net, "decoder_net.h5",
                            "No decoder saved.")
  IN  save_model_weights(r3, detector.ae, "ae.ckpt", "No ae saved.")

save_tf_vae(detector, r) ==
  LET r1 == ensure_model_dir(ensure_dir(r))
      r2 == save_sequential(r1, detector.vae.encoder.encoder_net, "encoder_net.h5",
                            "No encoder saved.")
      r3 == save_sequential(r2, detector.vae.decoder.decoder_net, "decoder_net.h5",
                            "No decoder saved.")
  IN  save_model_weights(r3, detector.vae, "vae.ckpt", "No vae saved.")

save_tf_model(model, r) ==
  LET r1 == ensure_model_dir(ensure_dir(r))
  IN  IF IsKerasModel(model)
      THEN [r1 EXCEPT !.fs = write_model(r1.fs, "model.h5", h5_save(model))]
      ELSE warning(r1, "No classification model saved.")

\* 'model_hl_' + str(i) + '.ckpt' for the Python index i = 0, 1, ...
hl_name(i) == "model_hl_" \o ToString(i) \o ".ckpt"

RECURSIVE save_hl_from(_, _, _)
\* for i, m in enumerate(models): m.save_weights(model_hl_<i>.ckpt), the loop
\* from list position k on.
save_hl_from(models, k, r) ==
  IF k > Len(models) \/ r.err /= NoError THEN r
  ELSE IF ~IsKerasModel(models[k])
       THEN raise(r, "AttributeError: save_weights")
       ELSE save_hl_from(models, k + 1,
              [r EXCEPT !.fs = write_model(r.fs, hl_name(k - 1), ckpt_save(models[k]))])

save_tf_hl(models, r) ==
  IF models /= None
  THEN save_hl_from(models[1], 1, ensure_model_dir(ensure_dir(r)))
  ELSE r

save_tf_aegmm(od, r) ==
  LET r1 == ensure_model_dir(ensure_dir(r))
      r2 == save_sequential(r1, od.aegmm.encoder, "encoder_net.h5", "No encoder saved.")
      r3 == save_sequential(r2, od.aegmm.decoder, "decoder_net.h5", "No decoder saved.")
      r4 == save_sequential(r3, od.aegmm.gmm_density, "gmm_density_net.h5",
                            "No GMM density net saved.")
  IN  save_model_weights(r4, od.aegmm, "aegmm.ckpt", "No AEGMM saved.")

save_tf_vaegmm(od, r) ==
  LET r1 == ensure_model_dir(ensure_dir(r))
      r2 == save_sequential(r1, od.vaegmm.encoder.encoder_net, "encoder_net.h5",
                            "No encoder saved.")
      r3 == save_sequential(r2, od.vaegmm.decoder, "decoder_net.h5", "No decoder saved.")
      r4 == save_sequential(r3, od.vaegmm.gmm_density, "gmm_density_net.h5",
                            "No GMM density net saved.")
  IN  save_model_weights(r4, od.vaegmm, "vaegmm.ckpt", "No VAEGMM saved.")

save_tf_s2s(od, r) ==
  LET r1 == ensure_model_dir(ensure_dir(r))
      r2 == save_sequential(r1, od.seq2seq.threshold_net, "threshold_net.h5",
                            "No threshold net saved.")
  IN  save_model_weights(r2, od.seq2seq, "seq2seq.ckpt", "No Seq2Seq model saved.")

\* The warning state_aegmm and state_vaegmm log for a detector that has
\* not been fit.
state_warning(detector_name, detector, r) ==
  IF detector_name \in {"OutlierAEGMM", "OutlierVAEGMM"} /\ ~all_tensors(detector)
  THEN warning(r, "Saving detector that has not been fit.")
  ELSE r

\* with open(os.path.join(filepath, name), 'wb') as f: pickle.dump(obj, f)
dump_to(r, name, obj) == [r EXCEPT !.fs = write_top(r.fs, name, pickle_dump(obj))]

\* As save_tf, but a kind without sub-models empties model/.
save_tf_clearing(detector_name, detector, r) ==
  CASE detector_name = "OutlierAE" -> save_tf_ae(detector, r)
    [] detector_name = "OutlierVAE" -> save_tf_vae(detector, r)
    [] detector_name = "OutlierAEGMM" -> save_tf_aegmm(detector, r)
    [] detector_name = "OutlierVAEGMM" -> save_tf_vaegmm(detector, r)
    [] detector_name = "AdversarialAE" ->
         save_tf_hl(detector.model_hl,
                    save_tf_model(detector.model, save_tf_ae(detector, r)))
    [] detector_name = "OutlierSeq2Seq" -> save_tf_s2s(detector, r)
    [] OTHER -> [r EXCEPT !.fs.model = <<>>]

\* As save_tf, but a kind without sub-models gets a model/ subdirectory.
save_tf_with_model_dir(detector_name, detector, r) ==
  CASE detector_name = "OutlierAE" -> save_tf_ae(detector, r)
    [] detector_name = "OutlierVAE" -> save_tf_vae(detector, r)
    [] detector_name = "OutlierAEGMM" -> save_tf_aegmm(detector, r)
    [] detector_name = "OutlierVAEGMM" -> save_tf_vaegmm(detector, r)
    [] detector_name = "AdversarialAE" ->
         save_tf_hl(detector.model_hl,
                    save_tf_model(detector.model, save_tf_ae(detector, r)))
    [] detector_name = "OutlierSeq2Seq" -> save_tf_s2s(detector, r)
    [] OTHER -> ensure_model_dir(r)

\* The "save outlier detector specific TensorFlow models" chain.
save_tf(detector_name, detector, r) ==
  CASE detector_name = "OutlierAE" -> save_tf_ae(detector, r)
    [] detector_name = "OutlierVAE" -> save_tf_vae(detector, r)
    [] detector_name = "OutlierAEGMM" -> save_tf_aegmm(detector, r)
    [] detector_name = "OutlierVAEGMM" -> save_tf_vaegmm(detector, r)
    [] detector_name = "AdversarialAE" ->
         save_tf_hl(detector.model_hl,
                    save_tf_model(detector.model, save_tf_ae(detector, r)))
    [] detector_name = "OutlierSeq2Seq" -> save_tf_s2s(detector, r)
    [] OTHER -> r

\* As save_detector, but a call that raises after the kind check restores
\* the directory to what it was before the call.
save_detector_rollback(detector, f) ==
  LET detector_name == Get(detector.meta, "name")
  IN  IF detector_name \notin DEFAULT_DETECTORS
      THEN raise(Run(f), "ValueError: not supported by save_detector")
      ELSE LET r1 == ensure_dir(Run(f))
               r2 == dump_to(r1, "meta.pickle", detector.meta)
               r3 == state_warning(detector_name, detector, r2)
               r4 == dump_to(r3, detector_name \o ".pickle",
                             state_of(detector_name, detector))
               r5 == save_tf(detector_name, detector, r4)
           IN  IF r5.err /= NoError THEN [r5 EXCEPT !.fs = f] ELSE r5

\* As save_detector, but the directory is created before the kind check.
save_detector_mkdir_first(detector, f) ==
  LET detector_name == Get(detector.meta, "name")
  IN  IF detector_name \notin DEFAULT_DETECTORS
      THEN raise(ensure_dir(Run(f)), "ValueError: not supported by save_detector")
      ELSE LET r1 == ensure_dir(Run(f))
               r2 == dump_to(r1, "meta.pickle", detector.meta)
               r3 == state_warning(detector_name, detector, r2)
               r4 == dump_to(r3, detector_name \o ".pickle",
                             state_of(detector_name, detector))
           IN  save_tf(detector_name, detector, r4)

\* As save_detector, but the metadata blob is written before the kind check.
save_detector_meta_first(detector, f) ==
  LET detector_name == Get(detector.meta, "name")
  IN  IF detector_name \notin DEFAULT_DETECTORS
      THEN raise(dump_to(ensure_dir(Run(f)), "meta.pickle", detector.meta), "ValueError: not supported by save_detector")
      ELSE LET r1 == ensure_dir(Run(f))
               r2 == dump_to(r1, "meta.pickle", detector.meta)
               r3 == state_warning(detector_name, detector, r2)
               r4 == dump_to(r3, detector_name \o ".pickle",
                             state_of(detector_name, detector))
           IN  save_tf(detector_name, detector, r4)

save_detector(detector, f) ==
  LET detector_name == Get(detector.meta, "name")
  IN  IF detector_name \notin DEFAULT_DETECTORS
      THEN raise(Run(f), "ValueError: not supported by save_detector")
      ELSE LET r1 == ensure_dir(Run(f))
               r2 == dump_to(r1, "meta.pickle", detector.meta)
               r3 == state_warning(detector_name, detector, r2)
               r4 == dump_to(r3, detector_name \o ".pickle",
                             state_of(detector_name, detector))
           IN  save_tf(detector_name, detector, r4)

\* ---------------------------------------------------------------- model loading

\* Outcome of a load_* call: the value returned, the warnings logged and
\* the exception raised, if any.
Ret(v, log) == [val |-> v, log |-> log, err |-> NoError]

Fail(e, log) == [val |-> NoneModel, log |-> log, err |-> e]

has_model_file(f, name) == name \in listdir_model(f)

load_tf_model(f) ==
  IF ~f.model_isdir THEN Fail("FileNotFoundError: model", <<>>)
  ELSE IF ~has_model_file(f, "model.h5")
  THEN Ret(NoneModel, <<"No model found.">>)
  ELSE Ret(h5_load(f.model["model.h5"]), <<>>)

RECURSIVE load_hl_from_reversed(_, _, _, _, _)
\* As load_hl_from, but the checkpoint files are taken from the last index
\* down.
load_hl_from_reversed(f, model, items, k, acc) ==
  IF k > Len(items) THEN Ret(Some(acc), <<>>)
  ELSE IF ~IsKerasModel(model) THEN Fail("AttributeError: DenseHidden", <<>>)
  ELSE IF ~has_model_file(f, hl_name(Len(items) - k))
  THEN Fail("NotFoundError: " \o hl_name(Len(items) - k), <<>>)
  ELSE load_hl_from_reversed(f, model, items, k + 1,
         Append(acc, ckpt_load(DenseHidden(model, items[k][1], items[k][2]),
                               f.model[hl_name(Len(items) - k)])))

RECURSIVE load_hl_from(_, _, _, _, _)
\* for i, (hidden_layer, output_dim) in enumerate(hidden_layer_kld.items()),
\* the loop from item k on, with the models built so far in acc.
load_hl_from(f, model, items, k, acc) ==
  IF k > Len(items) THEN Ret(Some(acc), <<>>)
  ELSE IF ~IsKerasModel(model) THEN Fail("AttributeError: DenseHidden", <<>>)
  ELSE IF ~has_model_file(f, hl_name(k - 1))
  THEN Fail("NotFoundError: " \o hl_name(k - 1), <<>>)
  ELSE load_hl_from(f, model, items, k + 1,
         Append(acc, ckpt_load(DenseHidden(model, items[k][1], items[k][2]),
                               f.model[hl_name(k - 1)])))

load_tf_hl(f, model, state_dict) ==
  LET hidden_layer_kld == Get(state_dict, "hidden_layer_kld")
  IN  IF hidden_layer_kld = None \/ hidden_layer_kld[1] = <<>>
      THEN Ret(None, <<>>)
      ELSE load_hl_from(f, model, hidden_layer_kld[1], 1, <<>>)

\* The first missing file among names, in the order the code reads them.
first_missing(f, names) ==
  LET missing == {i \in 1..Len(names) : ~has_model_file(f, names[i])}
  IN  IF missing = {} THEN "" ELSE names[CHOOSE i \in missing : \A j \in missing : i <= j]

load_tf_ae(f) ==
  IF ~f.model_isdir THEN Fail("FileNotFoundError: model", <<>>)
  ELSE IF listdir_model(f) = {}
  THEN Ret(NoneModel, <<"No encoder, decoder or ae found.">>)
  ELSE LET miss == first_missing(f, <<"encoder_net.h5", "decoder_net.h5", "ae.ckpt">>)
       IN  IF miss /= "" THEN Fail("NotFoundError: " \o miss, <<>>)
           ELSE Ret(ckpt_load(AE(h5_load(f.model["encoder_net.h5"]),
                                 h5_load(f.model["decoder_net.h5"])),
                              f.model["ae.ckpt"]), <<>>)

load_tf_vae(f, state_dict) ==
  IF ~f.model_isdir THEN Fail("FileNotFoundError: model", <<>>)
  ELSE IF listdir_model(f) = {}
  THEN Ret(NoneModel, <<"No encoder, decoder or vae found.">>)
  ELSE LET miss == first_missing(f, <<"encoder_net.h5", "decoder_net.h5", "vae.ckpt">>)
       IN  IF miss /= "" THEN Fail("NotFoundError: " \o miss, <<>>)
           ELSE Ret(ckpt_load(VAE(h5_load(f.model["encoder_net.h5"]),
                                  h5_load(f.model["decoder_net.h5"]),
                                  Get(state_dict, "latent_dim"),
                                  Get(state_dict, "beta")),
                              f.model["vae.ckpt"]), <<>>)

load_tf_aegmm(f, state_dict) ==
  IF ~f.model_isdir THEN Fail("FileNotFoundError: model", <<>>)
  ELSE IF listdir_model(f) = {}
  THEN Ret(NoneModel, <<"No encoder, decoder, gmm density net or aegmm found.">>)
  ELSE LET miss == first_missing(f, <<"encoder_net.h5", "decoder_net.h5",
                                      "gmm_density_net.h5", "aegmm.ckpt">>)
       IN  IF miss /= "" THEN Fail("NotFoundError: " \o miss, <<>>)
           ELSE Ret(ckpt_load(AEGMM(h5_load(f.model["encoder_net.h5"]),
                                    h5_load(f.model["decoder_net.h5"]),
                                    h5_load(f.model["gmm_density_net.h5"]),
                                    Get(state_dict, "n_gmm"),
                                    Get(state_dict, "recon_features")),
                              f.model["aegmm.ckpt"]), <<>>)

load_tf_vaegmm(f, state_dict) ==
  IF ~f.model_isdir THEN Fail("FileNotFoundError: model", <<>>)
  ELSE IF listdir_model(f) = {}
  THEN Ret(NoneModel, <<"No encoder, decoder, gmm density net or vaegmm found.">>)
  ELSE LET miss == first_missing(f, <<"encoder_net.h5", "decoder_net.h5",
                                      "gmm_density_net.h5", "vaegmm.ckpt">>)
       IN  IF miss /= "" THEN Fail("NotFoundError: " \o miss, <<>>)
           ELSE Ret(ckpt_load(VAEGMM(h5_load(f.model["encoder_net.h5"]),
                                     h5_load(f.model["decoder_net.h5"]),
                                     h5_load(f.model["gmm_density_net.h5"]),
                                     Get(state_dict, "n_gmm"),
                                     Get(state_dict, "latent_dim"),
                                     Get(state_dict, "recon_features"),
                                     Get(state_dict, "beta")),
                              f.model["vaegmm.ckpt"]), <<>>)

load_tf_s2s(f, state_dict) ==
  IF ~f.model_isdir THEN Fail("FileNotFoundError: model", <<>>)
  ELSE IF listdir_model(f) = {}
  THEN Ret(NoneModel, <<"No seq2seq or threshold estimation net found.">>)
  ELSE LET miss == first_missing(f, <<"threshold_net.h5", "seq2seq.ckpt">>)
           latent_dim == Get(state_dict, "latent_dim")
           shape == Get(state_dict, "shape")[1]
           n_features == shape[Len(shape)]
       IN  IF miss /= "" THEN Fail("NotFoundError: " \o miss, <<>>)
           ELSE Ret(ckpt_load(Seq2Seq(EncoderLSTM(latent_dim),
                                      DecoderLSTM(latent_dim, n_features,
                                                  Get(state_dict, "output_activation")),
                                      h5_load(f.model["threshold_net.h5"]),
                                      n_features, Get(state_dict, "beta")),
                              f.model["seq2seq.ckpt"]), <<>>)

\* ---------------------------------------------------------------- detectors

\* The metadata a detector constructor sets.
default_meta(name, detector_type) ==
  << <<"name", name>>, <<"detector_type", detector_type>>, <<"data_type", None>> >>

\* Detector constructors (alibi_detect.od, alibi_detect.ad).  A keyword
\* the caller omits takes its default, None.
OutlierAE(threshold, ae) ==
  [meta |-> default_meta("OutlierAE", "offline"), threshold |-> threshold, ae |-> ae]

OutlierVAE(threshold, score_type, vae, samples) ==
  [meta |-> default_meta("OutlierVAE", "offline"), threshold |-> threshold,
   score_type |-> score_type, vae |-> vae, samples |-> samples]

RECURSIVE dense_hidden_from(_, _, _)
dense_hidden_from(model, items, k) ==
  IF k > Len(items) THEN <<>>
  ELSE <<DenseHidden(model, items[k][1], items[k][2])>>
         \o dense_hidden_from(model, items, k + 1)

AdversarialAE(threshold, ae, model, model_hl, hidden_layer_kld, w_model_hl, temperature) ==
  [meta |-> default_meta("AdversarialAE", "offline"), threshold |-> threshold,
   ae |-> ae, model |-> model,
   model_hl |-> IF model_hl /= None THEN model_hl
                ELSE IF hidden_layer_kld /= None
                     THEN Some(dense_hidden_from(model, hidden_layer_kld[1], 1))
                     ELSE None,
   hidden_layer_kld |-> hidden_layer_kld, w_model_hl |-> w_model_hl,
   temperature |-> temperature]

OutlierAEGMM(threshold, aegmm) ==
  [meta |-> default_meta("OutlierAEGMM", "offline"), threshold |-> threshold,
   aegmm |-> aegmm, phi |-> None, mu |-> None, cov |-> None, L |-> None,
   log_det_cov |-> None]

OutlierVAEGMM(threshold, vaegmm, samples) ==
  [meta |-> default_meta("OutlierVAEGMM", "offline"), threshold |-> threshold,
   vaegmm |-> vaegmm, samples |-> samples, phi |-> None, mu |-> None,
   cov |-> None, L |-> None, log_det_cov |-> None]

OutlierSeq2Seq(n_features, seq_len, threshold, seq2seq, latent_dim, output_activation) ==
  [meta |-> default_meta("OutlierSeq2Seq", "offline"), threshold |-> threshold,
   seq2seq |-> seq2seq, shape |-> Some(<<"-1", seq_len, n_features>>),
   latent_dim |-> latent_dim, output_activation |-> output_activation]

Mahalanobis(threshold, n_components, std_clip, start_clip, max_n, cat_vars, ohe) ==
  [meta |-> default_meta("Mahalanobis", "online"), threshold |-> threshold,
   n_components |-> n_components, std_clip |-> std_clip,
   start_clip |-> start_clip, max_n |-> max_n, cat_vars |-> cat_vars,
   ohe |-> ohe, d_abs |-> None, clip |-> None, mean |-> None, C |-> None,
   n |-> None]

IForest(threshold) ==
  [meta |-> default_meta("IForest", "offline"), threshold |-> threshold,
   isolationforest |-> None]

OutlierProphet(cap) ==
  [meta |-> default_meta("OutlierProphet", "offline"), cap |-> cap, model |-> None]

SpectralResidual(threshold, window_amp, window_local, n_est_points, n_grad_points) ==
  [meta |-> default_meta("SpectralResidual", "online"), threshold |-> threshold,
   window_amp |-> window_amp, window_local |-> window_local,
   n_est_points |-> n_est_points, n_grad_points |-> n_grad_points]

\* ---------------------------------------------------------------- init_*

init_od_ae(state_dict, ae) == OutlierAE(Get(state_dict, "threshold"), ae)

init_od_vae(state_dict, vae) ==
  OutlierVAE(Get(state_dict, "threshold"), Get(state_dict, "score_type"), vae,
             Get(state_dict, "samples"))

init_ad_ae(state_dict, ae, model, model_hl) ==
  AdversarialAE(Get(state_dict, "threshold"), ae, model, model_hl, None,
                Get(state_dict, "w_model_hl"), Get(state_dict, "temperature"))

\* As unfit_log, but the warning is given only when none of the five fields
\* is a tensor.
unfit_log_none(od) ==
  IF \A v \in {od.phi, od.mu, od.cov, od.L, od.log_det_cov} : ~is_tensor(v)
  THEN <<"Loaded detector has not been fit.">> ELSE <<>>

\* The warning init_od_aegmm and init_od_vaegmm log.
unfit_log(od) ==
  IF ~all_tensors(od) THEN <<"Loaded detector has not been fit.">> ELSE <<>>

init_od_aegmm(state_dict, aegmm) ==
  [OutlierAEGMM(Get(state_dict, "threshold"), aegmm)
     EXCEPT !.phi = Get(state_dict, "phi"), !.mu = Get(state_dict, "mu"),
            !.cov = Get(state_dict, "cov"), !.L = Get(state_dict, "L"),
            !.log_det_cov = Get(state_dict, "log_det_cov")]

init_od_vaegmm(state_dict, vaegmm) ==
  [OutlierVAEGMM(Get(state_dict, "threshold"), vaegmm, Get(state_dict, "samples"))
     EXCEPT !.phi = Get(state_dict, "phi"), !.mu = Get(state_dict, "mu"),
            !.cov = Get(state_dict, "cov"), !.L = Get(state_dict, "L"),
            !.log_det_cov = Get(state_dict, "log_det_cov")]

init_od_s2s(state_dict, seq2seq) ==
  LET shape == Get(state_dict, "shape")[1]
      seq_len == shape[2]
      n_features == shape[3]
  IN  OutlierSeq2Seq(n_features, seq_len, Get(state_dict, "threshold"), seq2seq,
                     Get(state_dict, "latent_dim"),
                     Get(state_dict, "output_activation"))

init_od_mahalanobis(state_dict) ==
  [Mahalanobis(Get(state_dict, "threshold"), Get(state_dict, "n_components"),
               Get(state_dict, "std_clip"), Get(state_dict, "start_clip"),
               Get(state_dict, "max_n"), Get(state_dict, "cat_vars"),
               Get(state_dict, "ohe"))
     EXCEPT !.d_abs = Get(state_dict, "d_abs"), !.clip = Get(state_dict, "clip"),
            !.mean = Get(state_dict, "mean"), !.C = Get(state_dict, "C"),
            !.n = Get(state_dict, "n")]

init_od_iforest(state_dict) ==
  [IForest(Get(state_dict, "threshold"))
     EXCEPT !.isolationforest = Get(state_dict, "isolationforest")]

init_od_prophet(state_dict) ==
  [OutlierProphet(Get(state_dict, "cap")) EXCEPT !.model = Get(state_dict, "model")]

init_od_sr(state_dict) ==
  SpectralResidual(Get(state_dict, "threshold"), Get(state_dict, "window_amp"),
                   Get(state_dict, "window_local"), Get(state_dict, "n_est_points"),
                   Get(state_dict, "n_grad_points"))

\* ---------------------------------------------------------------- load

\* Outcome of load_detector or fetch_detector: the detector returned
\* (None when an exception was raised), the warnings and the exception.
Returned(detector, log) == [det |-> Some(detector), log |-> log, err |-> NoError]

Raised(e, log) == [det |-> None, log |-> log, err |-> e]

\* detector = init_*(state_dict, m.val) once the sub-model load m is over.
with_model(m, detector, extra_log) ==
  IF m.err /= NoError THEN Raised(m.err, m.log)
  ELSE Returned(detector, m.log \o extra_log)

\* The "initialize outlier detector" chain of load_detector.
init_detector(f, detector_name, state_dict) ==
  CASE detector_name = "OutlierAE" ->
         LET ae == load_tf_ae(f)
         IN  with_model(ae, init_od_ae(state_dict, ae.val), <<>>)
    [] detector_name = "OutlierVAE" ->
         LET vae == load_tf_vae(f, state_dict)
         IN  with_model(vae, init_od_vae(state_dict, vae.val), <<>>)
    [] detector_name = "Mahalanobis" ->
         Returned(init_od_mahalanobis(state_dict), <<>>)
    [] detector_name = "IForest" -> Returned(init_od_iforest(state_dict), <<>>)
    [] detector_name = "OutlierAEGMM" ->
         LET aegmm == load_tf_aegmm(f, state_dict)
         IN  with_model(aegmm, init_od_aegmm(state_dict, aegmm.val),
                        unfit_log(init_od_aegmm(state_dict, aegmm.val)))
    [] detector_name = "OutlierVAEGMM" ->
         LET vaegmm == load_tf_vaegmm(f, state_dict)
         IN  with_model(vaegmm, init_od_vaegmm(state_dict, vaegmm.val),
                        unfit_log(init_od_vaegmm(state_dict, vaegmm.val)))
    [] detector_name = "AdversarialAE" ->
         LET ae == load_tf_ae(f)
             model == load_tf_model(f)
             model_hl == load_tf_hl(f, model.val, state_dict)
         IN  IF ae.err /= NoError THEN Raised(ae.err, ae.log)
             ELSE IF model.err /= NoError THEN Raised(model.err, ae.log \o model.log)
             ELSE IF model_hl.err /= NoError
             THEN Raised(model_hl.err, ae.log \o model.log \o model_hl.log)
             ELSE Returned(init_ad_ae(state_dict, ae.val, model.val, model_hl.val),
                           ae.log \o model.log \o model_hl.log)
    [] detector_name = "OutlierProphet" -> Returned(init_od_prophet(state_dict), <<>>)
    [] detector_name = "SpectralResidual" -> Returned(init_od_sr(state_dict), <<>>)
    [] detector_name = "OutlierSeq2Seq" ->
         LET seq2seq == load_tf_s2s(f, state_dict)
         IN  with_model(seq2seq, init_od_s2s(state_dict, seq2seq.val), <<>>)

\* As attach_meta, but the metadata the constructor set is kept.
attach_meta_skipped(detector, meta_dict) == detector

\* detector.meta = meta_dict
attach_meta(detector, meta_dict) == [detector EXCEPT !.meta = meta_dict]

\* As load_detector, but without the check of the kind name: for a name
\* outside the set no branch of the chain binds `detector`.
load_detector_unchecked(f) ==
  IF ~f.isdir THEN Raised("ValueError: does not exist", <<>>)
  ELSE IF "meta.pickle" \notin DOMAIN f.top
  THEN Raised("FileNotFoundError: meta.pickle", <<>>)
  ELSE LET meta_dict == pickle_load(f.top["meta.pickle"])
           detector_name == Get(meta_dict, "name")
       IN  IF (detector_name \o ".pickle") \notin DOMAIN f.top
           THEN Raised("FileNotFoundError: state", <<>>)
           ELSE IF detector_name \notin DEFAULT_DETECTORS
           THEN Raised("UnboundLocalError: detector", <<>>)
           ELSE LET state_dict == pickle_load(f.top[detector_name \o ".pickle"])
                    r == init_detector(f, detector_name, state_dict)
                IN  IF r.err /= NoError THEN r
                    ELSE Returned(attach_meta(r.det[1], meta_dict), r.log)

\* As load_detector, but a missing state blob is treated like a missing
\* model file: a warning, and a detector built without its StateRecord.
load_detector_lenient(f) ==
  IF ~f.isdir THEN Raised("ValueError: does not exist", <<>>)
  ELSE IF "meta.pickle" \notin DOMAIN f.top
  THEN Raised("FileNotFoundError: meta.pickle", <<>>)
  ELSE LET meta_dict == pickle_load(f.top["meta.pickle"])
           detector_name == Get(meta_dict, "name")
       IN  IF detector_name \notin DEFAULT_DETECTORS
           THEN Raised("ValueError: not supported by load_detector", <<>>)
           ELSE IF (detector_name \o ".pickle") \notin DOMAIN f.top
           THEN Returned([meta |-> meta_dict], <<"No state found.">>)
           ELSE LET state_dict == pickle_load(f.top[detector_name \o ".pickle"])
                    r == init_detector(f, detector_name, state_dict)
                IN  IF r.err /= NoError THEN r
                    ELSE Returned(attach_meta(r.det[1], meta_dict), r.log)

load_detector(f) ==
  IF ~f.isdir THEN Raised("ValueError: does not exist", <<>>)
  ELSE IF "meta.pickle" \notin DOMAIN f.top
  THEN Raised("FileNotFoundError: meta.pickle", <<>>)
  ELSE LET meta_dict == pickle_load(f.top["meta.pickle"])
           detector_name == Get(meta_dict, "name")
       IN  IF detector_name \notin DEFAULT_DETECTORS
           THEN Raised("ValueError: not supported by load_detector", <<>>)
           ELSE IF (detector_name \o ".pickle") \notin DOMAIN f.top
           THEN Raised("FileNotFoundError: state", <<>>)
           ELSE LET state_dict == pickle_load(f.top[detector_name \o ".pickle"])
                    r == init_detector(f, detector_name, state_dict)
                IN  IF r.err /= NoError THEN r
                    ELSE Returned(attach_meta(r.det[1], meta_dict), r.log)

\* ---------------------------------------------------------------- fetch

\* What the registry serves under the URL fetch_detector builds: a
\* metadata blob and a state blob (None when the URL has no such object)
\* and the files under model/.
served_model(entry, name) == name \in DOMAIN entry.model

\* tf.keras.utils.get_file(model_path/name, url_models/name): an existing
\* local file is kept, otherwise the file is downloaded; a failed download
\* raises.
get_file(r, entry, name) ==
  IF r.err /= NoError \/ has_model_file(r.fs, name) THEN r
  ELSE IF served_model(entry, name)
       THEN [r EXCEPT !.fs = write_model(r.fs, name, entry.model[name])]
       ELSE raise(r, "Exception: URL fetch failure on " \o name)

RECURSIVE fetch_hl_from(_, _, _, _, _, _)
\* The hidden-layer loop of fetch_detector from item k on; the three
\* checkpoint files of one model are one artifact model_hl_<i>.ckpt.
fetch_hl_from(r, entry, clf, items, k, acc) ==
  IF k > Len(items) THEN [run |-> r, val |-> Some(acc)]
  ELSE LET r1 == get_file(r, entry, hl_name(k - 1))
       IN  IF r1.err /= NoError THEN [run |-> r1, val |-> None]
           ELSE fetch_hl_from(r1, entry, clf, items, k + 1,
                  Append(acc, ckpt_load(DenseHidden(clf, items[k][1], items[k][2]),
                                        r1.fs.model[hl_name(k - 1)])))

\* Outcome of fetch_detector: the directory it leaves and what it returns.
Fetched(r, detector) ==
  [fs |-> r.fs,
   out |-> IF r.err /= NoError THEN Raised(r.err, r.log)
           ELSE Returned(detector[1], r.log)]

\* The AdversarialAE branch of fetch_detector.
fetch_adv_ae(r, entry, state_dict) ==
  LET r1 == get_file(r, entry, "encoder_net.h5")
      r2 == get_file(r1, entry, "decoder_net.h5")
      r3 == get_file(r2, entry, "model.h5")
      encoder_net == h5_load(r3.fs.model["encoder_net.h5"])
      decoder_net == h5_load(r3.fs.model["decoder_net.h5"])
      clf == h5_load(r3.fs.model["model.h5"])
      ae == AE(encoder_net, decoder_net)
      hidden_layer_kld == Get(state_dict, "hidden_layer_kld")
      hl == IF hidden_layer_kld /= None
            THEN fetch_hl_from(r3, entry, clf, hidden_layer_kld[1], 1, <<>>)
            ELSE [run |-> r3, val |-> None]
  IN  IF r3.err /= NoError THEN Fetched(r3, None)
      ELSE IF hl.run.err /= NoError THEN Fetched(hl.run, None)
      ELSE Fetched(hl.run, Some(init_ad_ae(state_dict, ae, clf, hl.val)))

\* As fetch_detector, but the branch is chosen by the detector_type
\* argument instead of the kind the metadata names.
fetch_detector_by_type(f, detector_type, entry) ==
  LET r0 == ensure_dir(Run(f))
  IN  IF entry.meta = None
      THEN Fetched(raise(r0, "HTTPError: meta.pickle"), None)
      ELSE
        LET meta == pickle_load(entry.meta[1])
            r1 == dump_to(r0, "meta.pickle", meta)
            name == Get(meta, "name")
        IN  IF entry.state = None
            THEN Fetched(raise(r1, "HTTPError: state"), None)
            ELSE
              LET state_dict == pickle_load(entry.state[1])
                  r2 == dump_to(r1, name \o ".pickle", state_dict)
                  r3 == ensure_model_dir(r2)
              IN  IF detector_type = "adversarial"
                  THEN fetch_adv_ae(r3, entry, state_dict)
                  ELSE Fetched(raise(r3, "NotImplementedError"), None)

fetch_detector(f, detector_type, entry) ==
  LET r0 == ensure_dir(Run(f))
  IN  IF entry.meta = None
      THEN Fetched(raise(r0, "HTTPError: meta.pickle"), None)
      ELSE
        LET meta == pickle_load(entry.meta[1])
            r1 == dump_to(r0, "meta.pickle", meta)
            name == Get(meta, "name")
        IN  IF entry.state = None
            THEN Fetched(raise(r1, "HTTPError: state"), None)
            ELSE
              LET state_dict == pickle_load(entry.state[1])
                  r2 == dump_to(r1, name \o ".pickle", state_dict)
                  r3 == ensure_model_dir(r2)
              IN  IF name = "AdversarialAE"
                  THEN fetch_adv_ae(r3, entry, state_dict)
                  ELSE Fetched(raise(r3, "NotImplementedError"), None)

\* ---------------------------------------------------------------- inputs

\* A trained tf.keras.Sequential network.
Net(w) == [cls |-> "Sequential", w |-> w]

\* A tf.Tensor holding fitted numeric state.
Tensor(id) == Some(<<"tensor", id>>)

\* The user's metadata of a detector built for image data.
meta_of(d, data_type) ==
  << <<"name", Get(d.meta, "name")>>,
     <<"detector_type", Get(d.meta, "detector_type")>>,
     <<"data_type", data_type>> >>

TrainedAE == AE(Net("enc_w"), Net("dec_w"))

TrainedVAE ==
  [VAE(Net("enc_w"), Net("dec_w"), Some("2"), Some("1.0")) EXCEPT !.own = "vae_w"]

TrainedAEGMM ==
  AEGMM(Net("enc_w"), Net("dec_w"), Net("gmm_w"), Some("2"), Some("True"))

TrainedVAEGMM ==
  [VAEGMM(Net("enc_w"), Net("dec_w"), Net("gmm_w"), Some("2"), Some("2"),
          Some("True"), Some("1.0")) EXCEPT !.own = "vaegmm_w"]

TrainedSeq2Seq ==
  [Seq2Seq(EncoderLSTM(Some("4")), DecoderLSTM(Some("4"), "3", Some("linear")),
           Net("thr_w"), "3", Some("1.0")) EXCEPT !.own = "s2s_w"]

Classifier == [cls |-> "Model", w |-> "clf_w"]

\* hidden_layer_kld mappings, as items in insertion order.
KldTwo == Some(<< <<"layer_a", "10">>, <<"layer_b", "5">> >>)

KldOne == Some(<< <<"layer_b", "5">> >>)

\* An AdversarialAE built from a mapping and trained: the constructor
\* derives model_hl from the mapping; training sets the weights.
TrainedAdversarialAE(threshold, kld) ==
  LET ad == AdversarialAE(threshold, TrainedAE, Classifier, None, kld,
                          Some("1.0"), Some("1.0"))
      trained(m) == [m EXCEPT !.own = "hl_w_" \o m.hidden_layer]
  IN  IF ad.model_hl = None THEN ad
      ELSE [ad EXCEPT !.model_hl =
              Some([i \in 1..Len(ad.model_hl[1]) |-> trained(ad.model_hl[1][i])])]

\* For each kind, an instance that was fit (all numeric state present).
FitInstance(kind) ==
  CASE kind = "OutlierAE" -> OutlierAE(Some("0.5"), TrainedAE)
    [] kind = "OutlierVAE" ->
         OutlierVAE(Some("0.5"), Some("mse"), TrainedVAE, Some("10"))
    [] kind = "Mahalanobis" ->
         [Mahalanobis(Some("0.5"), Some("3"), Some("3"), Some("100"), Some("1000"),
                      Some("cat"), Some("False"))
            EXCEPT !.d_abs = Some("d_abs"), !.clip = Some("clip"),
                   !.mean = Some("mean"), !.C = Some("C"), !.n = Some("20")]
    [] kind = "IForest" ->
         [IForest(Some("0.5")) EXCEPT !.isolationforest = Some("fitted_forest")]
    [] kind = "OutlierAEGMM" ->
         [OutlierAEGMM(Some("0.5"), TrainedAEGMM)
            EXCEPT !.phi = Tensor("phi"), !.mu = Tensor("mu"), !.cov = Tensor("cov"),
                   !.L = Tensor("L"), !.log_det_cov = Tensor("log_det_cov")]
    [] kind = "OutlierVAEGMM" ->
         [OutlierVAEGMM(Some("0.5"), TrainedVAEGMM, Some("10"))
            EXCEPT !.phi = Tensor("phi"), !.mu = Tensor("mu"), !.cov = Tensor("cov"),
                   !.L = Tensor("L"), !.log_det_cov = Tensor("log_det_cov")]
    [] kind = "AdversarialAE" -> TrainedAdversarialAE(Some("0.5"), KldTwo)
    [] kind = "OutlierProphet" ->
         [OutlierProphet(Some("cap")) EXCEPT !.model = Some("fitted_prophet")]
    [] kind = "SpectralResidual" ->
         SpectralResidual(Some("0.5"), Some("20"), Some("20"), Some("10"), Some("5"))
    [] kind = "OutlierSeq2Seq" ->
         OutlierSeq2Seq("3", "8", Some("0.5"), TrainedSeq2Seq, Some("4"),
                        Some("linear"))

\* For each kind, an instance that was not fit (numeric state absent).
UnfitInstance(kind) ==
  CASE kind = "OutlierAE" -> OutlierAE(None, TrainedAE)
    [] kind = "OutlierVAE" -> OutlierVAE(None, Some("mse"), TrainedVAE, Some("10"))
    [] kind = "Mahalanobis" ->
         [Mahalanobis(None, Some("3"), Some("3"), Some("100"), Some("1000"),
                      None, Some("False")) EXCEPT !.n = Some("0")]
    [] kind = "IForest" ->
         [IForest(None) EXCEPT !.isolationforest = Some("new_forest")]
    [] kind = "OutlierAEGMM" -> OutlierAEGMM(None, TrainedAEGMM)
    [] kind = "OutlierVAEGMM" -> OutlierVAEGMM(None, TrainedVAEGMM, Some("10"))
    [] kind = "AdversarialAE" -> TrainedAdversarialAE(None, None)
    [] kind = "OutlierProphet" ->
         [OutlierProphet(None) EXCEPT !.model = Some("new_prophet")]
    [] kind = "SpectralResidual" ->
         SpectralResidual(None, Some("20"), Some("20"), Some("10"), Some("5"))
    [] kind = "OutlierSeq2Seq" ->
         OutlierSeq2Seq("3", "8", None, TrainedSeq2Seq, Some("4"), Some("linear"))

\* The fit instances carry the user's data type in their metadata.
FitDetector(kind) ==
  [FitInstance(kind) EXCEPT !.meta = meta_of(FitInstance(kind), Some("image"))]

\* A detector of a kind outside DEFAULT_DETECTORS.
UnsupportedDetector ==
  [meta |-> default_meta("LLR", "offline"), threshold |-> Some("0.5")]

\* An OutlierAE whose encoder is not a tf.keras.Sequential.
CustomEncoderAE ==
  OutlierAE(Some("0.7"),
            [TrainedAE EXCEPT !.encoder.encoder_net = [cls |-> "Layer", w |-> "enc_w"]])

\* The detectors save_detector is called with.
Detectors ==
  {FitDetector(k) : k \in DEFAULT_DETECTORS}
    \cup {UnfitInstance(k) : k \in DEFAULT_DETECTORS}
    \cup {TrainedAdversarialAE(Some("0.5"), KldOne), CustomEncoderAE,
          UnsupportedDetector}

\* The artifact set a registry serves for detector d: the files a save of
\* d into a new directory writes.
Published(d) ==
  LET f == save_detector(d, NoDir).fs
  IN  [meta |-> Some(f.top["meta.pickle"]),
       state |-> Some(f.top[Get(d.meta, "name") \o ".pickle"]),
       model |-> f.model]

\* Metadata naming a kind outside DEFAULT_DETECTORS, with a state blob.
PublishedUnsupported ==
  [meta |-> Some(pickle_dump(UnsupportedDetector.meta)),
   state |-> Some(pickle_dump(<< <<"threshold", Some("0.5")>> >>)),
   model |-> <<>>]

\* What a download can find: complete artifact sets, and sets the registry
\* serves only in part (nothing, no state blob, no model files, no
\* hidden-layer checkpoints).
RegistryEntries ==
  {Published(FitDetector(k)) : k \in DEFAULT_DETECTORS}
    \cup {Published(UnfitInstance("AdversarialAE")), PublishedUnsupported,
          [meta |-> None, state |-> None, model |-> <<>>],
          [Published(FitDetector("OutlierVAE")) EXCEPT !.state = None],
          [Published(FitDetector("AdversarialAE")) EXCEPT !.model = <<>>],
          [Published(FitDetector("AdversarialAE")) EXCEPT !.model =
             [n \in {"encoder_net.h5", "decoder_net.h5", "model.h5"} |-> @[n]]]}

\* detector_type argument of fetch_detector.
DetectorTypes == {"adversarial", "outlier", "drift"}

\* ---------------------------------------------------------------- behaviour

NoOp == [name |-> "none"]

\* The exception of a save_detector call rejected for its kind.
NotSupportedBySave == "ValueError: not supported by save_detector"

\* No save_detector or load_detector call is in progress, and no file has
\* been written by a call yet. stamp maps each file to the number of the
\* save_detector call that wrote it last.
NoRun ==
  [saver |-> [pc |-> "idle"], loader |-> [pc |-> "idle"], loads |-> 0,
   stamp |-> [top |-> <<>>, model |-> <<>>]]

NoResult == Raised(NoError, <<>>)

Init ==
  /\ fs = NoDir
  /\ op = NoOp
  /\ res = NoResult
  /\ prev = [op |-> NoOp, res |-> NoResult]
  /\ nops = 0
  /\ saves_only = TRUE
  /\ saves_clean = TRUE
  /\ run = NoRun

\* save_detector(detector, filepath)
Save(detector) ==
  /\ nops < MaxOps
  /\ LET r == save_detector(detector, fs)
     IN  /\ fs' = r.fs
         /\ res' = IF r.err /= NoError THEN Raised(r.err, r.log)
                   ELSE [det |-> None, log |-> r.log, err |-> NoError]
  /\ op' = [name |-> "save", detector |-> detector]
  /\ prev' = [op |-> op, res |-> res]
  /\ nops' = nops + 1
  /\ saves_only' = (saves_only /\ res'.err = NoError)
  /\ saves_clean' = (saves_clean /\ res'.err \in {NoError, NotSupportedBySave})
  /\ UNCHANGED run

\* load_detector(filepath)
Load ==
  /\ op.name /= "load"
  /\ res' = load_detector(fs)
  /\ op' = [name |-> "load"]
  /\ prev' = [op |-> op, res |-> res]
  /\ UNCHANGED <<fs, nops, saves_only, saves_clean, run>>

\* fetch_detector(filepath, detector_type, dataset, detector_name, model)
Fetch(detector_type, entry) ==
  /\ nops < MaxOps
  /\ LET r == fetch_detector(fs, detector_type, entry)
     IN  /\ fs' = r.fs
         /\ res' = r.out
  /\ op' = [name |-> "fetch", detector_type |-> detector_type, entry |-> entry]
  /\ prev' = [op |-> op, res |-> res]
  /\ nops' = nops + 1
  /\ saves_only' = FALSE
  /\ saves_clean' = FALSE
  /\ UNCHANGED run

Next ==
  \/ \E detector \in Detectors : Save(detector)
  \/ Load
  \/ \E detector_type \in DetectorTypes, entry \in RegistryEntries :
       Fetch(detector_type, entry)

Spec == Init /\ [][Next]_vars

\* ---------------------------------------------------------------- single steps

\* One filesystem operation, warning or raise of save_detector.
Step(kind, name, content) == [kind |-> kind, name |-> name, content |-> content]

EnsureDir == Step("ensure_dir", "", None)

EnsureModelDir == Step("ensure_model_dir", "", None)

WriteTop(name, content) == Step("write_top", name, Some(content))

WriteModel(name, content) == Step("write_model", name, Some(content))

Warn(msg) == Step("warn", msg, None)

Raise(e) == Step("raise", e, None)

\* if isinstance(net, tf.keras.Sequential): net.save(...) else: warning
sequential_step(net, name, msg) ==
  IF IsSequential(net) THEN WriteModel(name, h5_save(net)) ELSE Warn(msg)

\* if isinstance(m, tf.keras.Model): m.save_weights(...) else: warning
weights_step(m, name, msg) ==
  IF IsKerasModel(m) THEN WriteModel(name, ckpt_save(m)) ELSE Warn(msg)

\* for i, m in enumerate(models): m.save_weights(model_hl_<i>.ckpt); the loop
\* ends at the first element without save_weights.
hl_steps(models) ==
  LET failing == {i \in 1..Len(models) : ~IsKerasModel(models[i])}
      last == IF failing = {} THEN Len(models)
              ELSE (CHOOSE i \in failing : \A j \in failing : i <= j) - 1
  IN  [i \in 1..last |-> WriteModel(hl_name(i - 1), ckpt_save(models[i]))]
        \o (IF failing = {} THEN <<>> ELSE <<Raise("AttributeError: save_weights")>>)

\* The steps of save_tf_ae.
ae_steps(detector) ==
  << EnsureDir, EnsureModelDir,
     sequential_step(detector.ae.encoder.encoder_net, "encoder_net.h5", "No encoder saved."),
     sequential_step(detector.ae.decoder.decoder_net, "decoder_net.h5", "No decoder saved."),
     weights_step(detector.ae, "ae.ckpt", "No ae saved.") >>

\* The steps of the save_tf_* calls save_detector makes for the kind.
tf_steps(detector_name, detector) ==
  CASE detector_name = "OutlierAE" -> ae_steps(detector)
    [] detector_name = "OutlierVAE" ->
         << EnsureDir, EnsureModelDir,
            sequential_step(detector.vae.encoder.encoder_net, "encoder_net.h5",
                            "No encoder saved."),
            sequential_step(detector.vae.decoder.decoder_net, "decoder_net.h5",
                            "No decoder saved."),
            weights_step(detector.vae, "vae.ckpt", "No vae saved.") >>
    [] detector_name = "OutlierAEGMM" ->
         << EnsureDir, EnsureModelDir,
            sequential_step(detector.aegmm.encoder, "encoder_net.h5", "No encoder saved."),
            sequential_step(detector.aegmm.decoder, "decoder_net.h5", "No decoder saved."),
            sequential_step(detector.aegmm.gmm_density, "gmm_density_net.h5",
                            "No GMM density net saved."),
            weights_step(detector.aegmm, "aegmm.ckpt", "No AEGMM saved.") >>
    [] detector_name = "OutlierVAEGMM" ->
         << EnsureDir, EnsureModelDir,
            sequential_step(detector.vaegmm.encoder.encoder_net, "encoder_net.h5",
                            "No encoder saved."),
            sequential_step(detector.vaegmm.decoder, "decoder_net.h5", "No decoder saved."),
            sequential_step(detector.vaegmm.gmm_density, "gmm_density_net.h5",
                            "No GMM density net saved."),
            weights_step(detector.vaegmm, "vaegmm.ckpt", "No VAEGMM saved.") >>
    [] detector_name = "AdversarialAE" ->
         ae_steps(detector)
           \o << EnsureDir, EnsureModelDir,
                 IF IsKerasModel(detector.model)
                 THEN WriteModel("model.h5", h5_save(detector.model))
                 ELSE Warn("No classification model saved.") >>
           \o (IF detector.model_hl = None THEN <<>>
               ELSE <<EnsureDir, EnsureModelDir>> \o hl_steps(detector.model_hl[1]))
    [] detector_name = "OutlierSeq2Seq" ->
         << EnsureDir, EnsureModelDir,
            sequential_step(detector.seq2seq.threshold_net, "threshold_net.h5",
                            "No threshold net saved."),
            weights_step(detector.seq2seq, "seq2seq.ckpt", "No Seq2Seq model saved.") >>
    [] OTHER -> <<>>

\* As save_steps, but the state blob is written before the metadata blob.
save_steps_state_first(detector) ==
  LET detector_name == Get(detector.meta, "name")
  IN  << EnsureDir >>
        \o (IF state_warning(detector_name, detector, Run(NoDir)).log /= <<>>
            THEN <<Warn("Saving detector that has not been fit.")>> ELSE <<>>)
        \o << WriteTop(detector_name \o ".pickle",
                       pickle_dump(state_of(detector_name, detector))),
              WriteTop("meta.pickle", pickle_dump(detector.meta)) >>
        \o tf_steps(detector_name, detector)

\* The steps of save_detector for a detector of a supported kind, in the
\* order the code takes them.
save_steps(detector) ==
  LET detector_name == Get(detector.meta, "name")
  IN  << EnsureDir, WriteTop("meta.pickle", pickle_dump(detector.meta)) >>
        \o (IF state_warning(detector_name, detector, Run(NoDir)).log /= <<>>
            THEN <<Warn("Saving detector that has not been fit.")>> ELSE <<>>)
        \o << WriteTop(detector_name \o ".pickle",
                       pickle_dump(state_of(detector_name, detector))) >>
        \o tf_steps(detector_name, detector)

\* The effect of one step on the directory, the log and the error.
exec_step(step, r) ==
  CASE step.kind = "ensure_dir" -> ensure_dir(r)
    [] step.kind = "ensure_model_dir" -> ensure_model_dir(r)
    [] step.kind = "write_top" ->
         [r EXCEPT !.fs = write_top(r.fs, step.name, step.content[1])]
    [] step.kind = "write_model" ->
         [r EXCEPT !.fs = write_model(r.fs, step.name, step.content[1])]
    [] step.kind = "warn" -> warning(r, step.name)
    [] step.kind = "raise" -> raise(r, step.name)

\* The stamps after save number n took the step.
stamp_step(stamp, step, n) ==
  CASE step.kind = "write_top" -> [stamp EXCEPT !.top = Put(@, step.name, n)]
    [] step.kind = "write_model" -> [stamp EXCEPT !.model = Put(@, step.name, n)]
    [] OTHER -> stamp

\* The stamp of a file, 0 when no save_detector call wrote it.
stamp_of(stamps, name) == IF name \in DOMAIN stamps THEN stamps[name] ELSE 0

\* The load_tf_* calls load_detector makes for the kind.
model_loads(detector_name) ==
  CASE detector_name = "OutlierAE" -> <<"load_tf_ae">>
    [] detector_name = "OutlierVAE" -> <<"load_tf_vae">>
    [] detector_name = "OutlierAEGMM" -> <<"load_tf_aegmm">>
    [] detector_name = "OutlierVAEGMM" -> <<"load_tf_vaegmm">>
    [] detector_name = "AdversarialAE" -> <<"load_tf_ae", "load_tf_model", "load_tf_hl">>
    [] detector_name = "OutlierSeq2Seq" -> <<"load_tf_s2s">>
    [] OTHER -> <<>>

\* As load_plan, but the detector is constructed before the load_tf_* calls.
load_plan_construct_first(detector_name) ==
  <<"state", "construct">> \o model_loads(detector_name) \o <<"assign", "attach">>

\* The steps of load_detector after the metadata was read and the kind
\* checked, in the order the code takes them.
load_plan(detector_name) ==
  <<"state">> \o model_loads(detector_name) \o <<"construct", "assign", "attach">>

\* The constructor call of init_*: the detector as the constructor leaves it.
construct(detector_name, state_dict, models) ==
  CASE detector_name = "OutlierAE" -> init_od_ae(state_dict, models.main)
    [] detector_name = "OutlierVAE" -> init_od_vae(state_dict, models.main)
    [] detector_name = "OutlierAEGMM" ->
         OutlierAEGMM(Get(state_dict, "threshold"), models.main)
    [] detector_name = "OutlierVAEGMM" ->
         OutlierVAEGMM(Get(state_dict, "threshold"), models.main,
                       Get(state_dict, "samples"))
    [] detector_name = "AdversarialAE" ->
         init_ad_ae(state_dict, models.main, models.model, models.model_hl)
    [] detector_name = "OutlierSeq2Seq" -> init_od_s2s(state_dict, models.main)
    [] detector_name = "Mahalanobis" -> init_od_mahalanobis(state_dict)
    [] detector_name = "IForest" -> init_od_iforest(state_dict)
    [] detector_name = "OutlierProphet" -> init_od_prophet(state_dict)
    [] detector_name = "SpectralResidual" -> init_od_sr(state_dict)

\* The assignments init_od_aegmm and init_od_vaegmm make after the
\* constructor call.
assign(detector_name, od, state_dict) ==
  IF detector_name \in {"OutlierAEGMM", "OutlierVAEGMM"}
  THEN [od EXCEPT !.phi = Get(state_dict, "phi"), !.mu = Get(state_dict, "mu"),
                  !.cov = Get(state_dict, "cov"), !.L = Get(state_dict, "L"),
                  !.log_det_cov = Get(state_dict, "log_det_cov")]
  ELSE od

\* A load_detector call that passed the directory check.
NewLoader ==
  [pc |-> "running", todo |-> <<"meta">>, events |-> <<>>, detector_name |-> "",
   meta_dict |-> <<>>, state_dict |-> <<>>,
   models |-> [main |-> NoneModel, model |-> NoneModel, model_hl |-> None],
   det |-> None, log |-> <<>>, err |-> NoError,
   window |-> [meta |-> 0, state |-> 0],
   stamps |-> [meta |-> 0, state |-> 0, model |-> 0]]

fail_load(l, e) == [l EXCEPT !.pc = "failed", !.err = e, !.todo = <<>>]

\* The loader after the result m of a load_tf_* call is stored under field.
store_model(l, field, m) ==
  IF m.err /= NoError THEN fail_load([l EXCEPT !.log = @ \o m.log], m.err)
  ELSE [l EXCEPT !.models[field] = m.val, !.log = @ \o m.log]

\* One step of load_detector on directory f.
load_step(l, f) ==
  LET step == Head(l.todo)
      l1 == [l EXCEPT !.todo = Tail(@), !.events = Append(@, step)]
  IN  CASE step = "meta" ->
             IF "meta.pickle" \notin DOMAIN f.top
             THEN fail_load(l1, "FileNotFoundError: meta.pickle")
             ELSE LET meta_dict == pickle_load(f.top["meta.pickle"])
                      detector_name == Get(meta_dict, "name")
                  IN  IF detector_name \notin DEFAULT_DETECTORS
                      THEN fail_load([l1 EXCEPT !.meta_dict = meta_dict],
                                     "ValueError: not supported by load_detector")
                      ELSE [l1 EXCEPT !.meta_dict = meta_dict,
                                      !.detector_name = detector_name,
                                      !.todo = load_plan(detector_name)]
        [] step = "state" ->
             IF (l.detector_name \o ".pickle") \notin DOMAIN f.top
             THEN fail_load(l1, "FileNotFoundError: state")
             ELSE [l1 EXCEPT !.state_dict =
                               pickle_load(f.top[l.detector_name \o ".pickle"])]
        [] step = "load_tf_ae" -> store_model(l1, "main", load_tf_ae(f))
        [] step = "load_tf_vae" -> store_model(l1, "main", load_tf_vae(f, l.state_dict))
        [] step = "load_tf_aegmm" ->
             store_model(l1, "main", load_tf_aegmm(f, l.state_dict))
        [] step = "load_tf_vaegmm" ->
             store_model(l1, "main", load_tf_vaegmm(f, l.state_dict))
        [] step = "load_tf_s2s" -> store_model(l1, "main", load_tf_s2s(f, l.state_dict))
        [] step = "load_tf_model" -> store_model(l1, "model", load_tf_model(f))
        [] step = "load_tf_hl" ->
             store_model(l1, "model_hl", load_tf_hl(f, l.models.model, l.state_dict))
        [] step = "construct" ->
             [l1 EXCEPT !.det = Some(construct(l.detector_name, l.state_dict, l.models))]
        [] step = "assign" ->
             LET od == assign(l.detector_name, l.det[1], l.state_dict)
             IN  [l1 EXCEPT !.det = Some(od),
                            !.log = @ \o (IF l.detector_name \in {"OutlierAEGMM", "OutlierVAEGMM"}
                                          THEN unfit_log(od) ELSE <<>>)]
        [] step = "attach" ->
             [l1 EXCEPT !.det = Some(attach_meta(l.det[1], l.meta_dict)), !.pc = "done"]

\* The detectors saved step by step.
StepDetectors ==
  {FitDetector("OutlierAE"), UnfitInstance("OutlierAE"), FitDetector("AdversarialAE"),
   UnfitInstance("OutlierAEGMM"), UnsupportedDetector}

\* save_detector is called: the kind check, before any file operation.
SaveBegin(detector) ==
  /\ run.saver.pc /= "writing"
  /\ nops < MaxOps
  /\ nops' = nops + 1
  /\ run' = [run EXCEPT !.saver =
               IF Get(detector.meta, "name") \notin DEFAULT_DETECTORS
               THEN [pc |-> "failed", detector |-> detector, n |-> nops + 1,
                     todo |-> <<>>, last |-> Raise(NotSupportedBySave),
                     log |-> <<>>, err |-> NotSupportedBySave]
               ELSE [pc |-> "writing", detector |-> detector, n |-> nops + 1,
                     todo |-> save_steps(detector), last |-> Step("begin", "", None),
                     log |-> <<>>, err |-> NoError]]
  /\ UNCHANGED <<fs, op, res, prev, saves_only, saves_clean>>

\* The running save_detector call takes its next step.
SaveStep ==
  /\ run.saver.pc = "writing"
  /\ LET step == Head(run.saver.todo)
         r == exec_step(step, [fs |-> fs, log |-> run.saver.log, err |-> NoError])
     IN  /\ fs' = r.fs
         /\ run' = [run EXCEPT
              !.saver = [@ EXCEPT !.todo = Tail(@), !.last = step, !.log = r.log,
                                  !.err = r.err,
                                  !.pc = IF r.err /= NoError THEN "failed"
                                         ELSE IF Tail(run.saver.todo) = <<>> THEN "done"
                                         ELSE "writing"],
              !.stamp = stamp_step(@, step, run.saver.n)]
  /\ UNCHANGED <<op, res, prev, nops, saves_only, saves_clean>>

\* load_detector is called: the directory check.
LoadBegin ==
  /\ run.loader.pc /= "running"
  /\ run.loads < MaxLoads
  /\ run' = [run EXCEPT !.loads = @ + 1,
                        !.loader = IF ~fs.isdir
                                   THEN fail_load(NewLoader, "ValueError: does not exist")
                                   ELSE NewLoader]
  /\ UNCHANGED <<fs, op, res, prev, nops, saves_only, saves_clean>>

\* The files under model/ a load_tf_* call reads, load_tf_hl apart.
files_read(step) ==
  CASE step = "load_tf_ae" -> {"encoder_net.h5", "decoder_net.h5", "ae.ckpt"}
    [] step = "load_tf_vae" -> {"encoder_net.h5", "decoder_net.h5", "vae.ckpt"}
    [] step = "load_tf_aegmm" ->
         {"encoder_net.h5", "decoder_net.h5", "gmm_density_net.h5", "aegmm.ckpt"}
    [] step = "load_tf_vaegmm" ->
         {"encoder_net.h5", "decoder_net.h5", "gmm_density_net.h5", "vaegmm.ckpt"}
    [] step = "load_tf_s2s" -> {"threshold_net.h5", "seq2seq.ckpt"}
    [] step = "load_tf_model" -> {"model.h5"}
    [] OTHER -> {}

\* The number of the save_detector call that is running and whose last step
\* was the write of its metadata blob; 0 when there is none.
meta_window(r) ==
  IF r.saver.pc = "writing" /\ r.saver.last.kind = "write_top"
       /\ r.saver.last.name = "meta.pickle"
  THEN r.saver.n ELSE 0

\* What is noted of a step of the loader: for the read of a blob, the stamp
\* of the blob and the window the read fell into; for a load_tf_* call, the
\* oldest stamp among the files it reads.
observe(l, step, detector_name, r) ==
  CASE step = "meta" ->
         [l EXCEPT !.window.meta = meta_window(r),
                   !.stamps.meta = stamp_of(r.stamp.top, "meta.pickle")]
    [] step = "state" ->
         [l EXCEPT !.window.state = meta_window(r),
                   !.stamps.state = stamp_of(r.stamp.top, detector_name \o ".pickle")]
    [] files_read(step) /= {} ->
         LET oldest == CHOOSE n \in {stamp_of(r.stamp.model, x) : x \in files_read(step)} :
                         \A x \in files_read(step) : n <= stamp_of(r.stamp.model, x)
         IN  [l EXCEPT !.stamps.model = IF step = "load_tf_model" /\ @ < oldest
                                        THEN @ ELSE oldest]
    [] OTHER -> l

\* The running load_detector call takes its next step.
LoadStep ==
  /\ run.loader.pc = "running"
  /\ run' = [run EXCEPT !.loader =
               observe(load_step(run.loader, fs), Head(run.loader.todo),
                       run.loader.detector_name, run)]
  /\ UNCHANGED <<fs, op, res, prev, nops, saves_only, saves_clean>>

NextSteps ==
  \/ \E detector \in StepDetectors : SaveBegin(detector)
  \/ SaveStep
  \/ LoadBegin
  \/ LoadStep

\* save_detector and load_detector calls on one directory, interleaved at
\* the granularity of single file operations.
SpecSteps == Init /\ [][NextSteps]_vars

\* ---------------------------------------------------------------- unusual detectors

\* An object that is no tf.keras model.
Custom(cls, w) == [cls |-> cls, w |-> w]

\* An OutlierAEGMM whose GMM density net is not a tf.keras.Sequential.
CustomDensityAEGMM ==
  [FitDetector("OutlierAEGMM") EXCEPT !.aegmm.gmm_density = Custom("Layer", "gmm_w")]

\* An OutlierSeq2Seq whose threshold net is not a tf.keras.Sequential.
CustomThresholdSeq2Seq ==
  [FitDetector("OutlierSeq2Seq")
     EXCEPT !.seq2seq.threshold_net = Custom("Layer", "thr_w")]

\* An OutlierVAE whose vae is not a tf.keras.Model.
CustomCompositeVAE == [FitDetector("OutlierVAE") EXCEPT !.vae.cls = "object"]

\* An AdversarialAE, without hidden-layer mapping, whose classifier is not
\* a tf.keras.Model.
CustomClassifierAdversarialAE ==
  [UnfitInstance("AdversarialAE") EXCEPT !.model = Custom("function", "clf_w")]

\* An AdversarialAE whose second hidden-layer model is not a tf.keras.Model
\* and has no save_weights.
CustomHiddenAdversarialAE ==
  [FitDetector("AdversarialAE")
     EXCEPT !.model_hl = Some(<<@[1][1], Custom("function", "hl_w")>>)]

\* An OutlierAEGMM of whose five numeric fields only phi is a tensor; mu is
\* an array that is no tensor.
PartFitAEGMM ==
  [UnfitInstance("OutlierAEGMM")
     EXCEPT !.phi = Tensor("phi"), !.mu = Some(<<"ndarray", "mu">>)]

EdgeDetectors ==
  {CustomEncoderAE, CustomDensityAEGMM, CustomThresholdSeq2Seq, CustomCompositeVAE,
   CustomClassifierAdversarialAE, CustomHiddenAdversarialAE, PartFitAEGMM,
   FitDetector("OutlierAEGMM"), UnfitInstance("OutlierAEGMM"),
   FitDetector("OutlierVAEGMM"), UnfitInstance("OutlierVAEGMM"),
   FitDetector("OutlierAE"), UnsupportedDetector}
    \cup {FitDetector(k) : k \in {"IForest", "Mahalanobis", "SpectralResidual",
                                   "OutlierProphet"}}
    \cup {UnfitInstance(k) : k \in {"IForest", "Mahalanobis", "SpectralResidual",
                                     "OutlierProphet"}}

\* save_detector called with one of the unusual detectors
SaveEdge == \E detector \in EdgeDetectors : Save(detector)

NextEdge == SaveEdge \/ Load

\* The behaviours of saves of unusual detectors and loads.
SpecEdge == Init /\ [][NextEdge]_vars

\* ---------------------------------------------------------------- properties

\* The kind name in a detector's metadata.
kind_of(detector) == Get(detector.meta, "name")

\* The detectors whose sub-models all have the structural type save expects.
RegularDetectors == Detectors \ {CustomEncoderAE, UnsupportedDetector}

\* The last operation was a load that directly followed a successful save
\* of a regular detector.
LoadAfterSave ==
  /\ op.name = "load"
  /\ prev.op.name = "save"
  /\ prev.res.err = NoError
  /\ prev.op.detector \in RegularDetectors

\* C1: a load that follows a save of a detector of any of the 10 kinds, fit
\* or unfit, returns a detector whose StateRecord (what the kind's state_*
\* function extracts) equals the StateRecord of the saved detector.
C1_RoundTrip ==
  LoadAfterSave =>
    /\ res.err = NoError
    /\ state_of(kind_of(prev.op.detector), res.det[1])
         = state_of(kind_of(prev.op.detector), prev.op.detector)

\* The two blobs every save writes.
blobs_of(f, detector) ==
  <<f.top["meta.pickle"], f.top[kind_of(detector) \o ".pickle"]>>

\* C2: a second save of the same detector into the same directory, directly
\* after the first, leaves the metadata blob and the state blob with the
\* contents they had after the first save.
C2_SaveIdempotent ==
  [][(/\ op.name = "save"
      /\ res.err = NoError
      /\ op'.name = "save"
      /\ op'.detector = op.detector)
       => blobs_of(fs', op.detector) = blobs_of(fs, op.detector)]_vars

C2_Witness ==
  /\ op.name = "save"
  /\ prev.op.name = "save"
  /\ prev.op.detector = op.detector
  /\ res.err = NoError
  /\ kind_of(op.detector) = "OutlierAEGMM"

\* The directory has a metadata blob.
has_meta(f) == f.isdir /\ "meta.pickle" \in DOMAIN f.top

\* The kind the directory's metadata blob names.
meta_kind(f) == Get(pickle_load(f.top["meta.pickle"]), "name")

\* C3: a load of a directory that does not exist fails and returns no
\* detector; a save of a detector of a kind outside the closed set fails
\* with the unsupported-kind error; a load of a directory whose metadata
\* names a kind outside the set fails with the unsupported-kind error.
C3_HardFailures ==
  /\ (op.name = "load" /\ ~fs.isdir) =>
       (res.err = "ValueError: does not exist" /\ res.det = None)
  /\ (op.name = "save" /\ kind_of(op.detector) \notin DEFAULT_DETECTORS) =>
       (res.err = "ValueError: not supported by save_detector" /\ res.det = None)
  /\ (op.name = "load" /\ has_meta(fs) /\ meta_kind(fs) \notin DEFAULT_DETECTORS) =>
       (res.err = "ValueError: not supported by load_detector" /\ res.det = None)

C3_Witness ==
  /\ op.name = "load"
  /\ has_meta(fs)
  /\ meta_kind(fs) \notin DEFAULT_DETECTORS
  /\ prev.op.name = "save"
  /\ kind_of(prev.op.detector) \notin DEFAULT_DETECTORS
  /\ res.err /= NoError

\* The directory has the state blob named after its metadata's kind.
has_state(f) == has_meta(f) /\ (meta_kind(f) \o ".pickle") \in DOMAIN f.top

\* C4: a load of an existing directory without a metadata blob, or without
\* the state blob named after the metadata's kind, fails and returns no
\* detector.
C4_MissingBlob ==
  (op.name = "load" /\ fs.isdir /\ ~has_state(fs)) =>
    (res.err /= NoError /\ res.det = None)

C4_Witness ==
  /\ op.name = "load"
  /\ has_meta(fs)
  /\ meta_kind(fs) \in DEFAULT_DETECTORS
  /\ ~has_state(fs)
  /\ res.det = None

\* The kinds with sub-models.
SubModelKinds ==
  {"OutlierAE", "OutlierVAE", "OutlierAEGMM", "OutlierVAEGMM", "OutlierSeq2Seq",
   "AdversarialAE"}

\* The sub-model field of a detector of a kind with sub-models.
sub_model(kind, detector) ==
  CASE kind = "OutlierAE" -> detector.ae
    [] kind = "OutlierVAE" -> detector.vae
    [] kind = "OutlierAEGMM" -> detector.aegmm
    [] kind = "OutlierVAEGMM" -> detector.vaegmm
    [] kind = "OutlierSeq2Seq" -> detector.seq2seq
    [] kind = "AdversarialAE" -> detector.ae

\* The directory has valid metadata and state blobs of a kind with
\* sub-models and an empty model/ subdirectory.
EmptyModelDir(f) ==
  /\ has_state(f)
  /\ meta_kind(f) \in SubModelKinds
  /\ f.model_isdir
  /\ listdir_model(f) = {}

\* C5: a load of a directory with valid metadata and state blobs of a kind
\* with sub-models and an empty model/ subdirectory returns a detector whose
\* sub-model field is the absent sentinel, logs a warning and does not raise.
C5_EmptyModelDirLoads ==
  (op.name = "load" /\ EmptyModelDir(fs)) =>
    /\ res.err = NoError
    /\ sub_model(meta_kind(fs), res.det[1]) = NoneModel
    /\ res.log /= <<>>

\* The last operation was a load directly after a successful save of an
\* AdversarialAE whose hidden-layer mapping has at least one entry.
LoadAfterSaveWithKld ==
  /\ LoadAfterSave
  /\ kind_of(prev.op.detector) = "AdversarialAE"
  /\ prev.op.detector.hidden_layer_kld /= None
  /\ prev.op.detector.hidden_layer_kld[1] /= <<>>

\* C6: after a save of an AdversarialAE with a hidden-layer mapping of n
\* entries, load rebuilds n auxiliary models; the model at index i is bound
\* to the i-th key and output dimension of the mapping, in insertion order,
\* and holds the weights of the file model_hl_<i>.ckpt, which are the
\* weights save wrote for the saved detector's model of that index.
C6_HiddenLayerOrder ==
  LoadAfterSaveWithKld =>
    LET items == prev.op.detector.hidden_layer_kld[1]
        saved == prev.op.detector.model_hl[1]
    IN  /\ res.err = NoError
        /\ res.det[1].model_hl /= None
        /\ Len(res.det[1].model_hl[1]) = Len(items)
        /\ \A i \in 1..Len(items) :
             LET m == res.det[1].model_hl[1][i]
             IN  /\ m.hidden_layer = items[i][1]
                 /\ m.output_dim = items[i][2]
                 /\ get_weights(m) = fs.model[hl_name(i - 1)].weights
                 /\ get_weights(m) = get_weights(saved[i])

C6_Witness ==
  /\ LoadAfterSaveWithKld
  /\ Len(prev.op.detector.hidden_layer_kld[1]) = 2
  /\ res.err = NoError
  /\ res.det[1].model_hl[1][2].hidden_layer = "layer_b"

\* The files a save of detector writes, with their contents: those of a
\* save into a directory that did not exist.
written_by(detector) == save_detector(detector, NoDir).fs

\* C7 as stated: after successful saves only, the directory holds exactly
\* the files the last save wrote.
C7_OnlyLastSaveFiles ==
  (op.name = "save" /\ saves_only) =>
    /\ DOMAIN fs.top = DOMAIN written_by(op.detector).top
    /\ DOMAIN fs.model = DOMAIN written_by(op.detector).model

\* files' has every file of new with the contents of new, and every other
\* file of files unchanged.
Overlaid(files, new, files2) ==
  /\ DOMAIN files2 = (DOMAIN files) \cup (DOMAIN new)
  /\ \A n \in DOMAIN new : files2[n] = new[n]
  /\ \A n \in (DOMAIN files) \ (DOMAIN new) : files2[n] = files[n]

\* C7 as amended: a successful save replaces every file it writes by what
\* it writes (nothing is appended) and leaves every other file of the
\* directory, such as another kind's state blob or model files of an
\* earlier save, in place and unchanged.
C7_SaveOverlays ==
  [][(op'.name = "save" /\ res'.err = NoError /\ nops' = nops + 1) =>
       /\ Overlaid(fs.top, written_by(op'.detector).top, fs'.top)
       /\ Overlaid(fs.model, written_by(op'.detector).model, fs'.model)]_vars

C7_Witness ==
  /\ op.name = "save"
  /\ res.err = NoError
  /\ saves_only
  /\ prev.op.name = "save"
  /\ kind_of(op.detector) = "AdversarialAE"
  /\ "OutlierVAE.pickle" \in DOMAIN fs.top
  /\ "vae.ckpt" \in DOMAIN fs.model

\* C8: the detector a successful load returns has its meta field equal to
\* the mapping stored in the directory's metadata blob, which after a save
\* of d is d.meta.
C8_MetaVerbatim ==
  /\ (op.name = "load" /\ res.err = NoError) =>
       res.det[1].meta = pickle_load(fs.top["meta.pickle"])
  /\ (LoadAfterSave /\ res.err = NoError) =>
       res.det[1].meta = prev.op.detector.meta

C8_Witness ==
  /\ LoadAfterSave
  /\ res.err = NoError
  /\ Get(res.det[1].meta, "data_type") = Some("image")
  /\ kind_of(res.det[1]) = "Mahalanobis"

\* The last operation was a fetch that downloaded a metadata blob and a
\* state blob, the metadata naming a kind other than AdversarialAE.
FetchedOtherKind ==
  /\ op.name = "fetch"
  /\ op.entry.meta /= None
  /\ Get(pickle_load(op.entry.meta[1]), "name") /= "AdversarialAE"

\* C9: whatever detector_type is, a fetch whose downloaded metadata names a
\* kind other than AdversarialAE returns no detector and, the blobs being
\* downloaded, fails with NotImplementedError.
C9_FetchOtherKind ==
  FetchedOtherKind =>
    /\ res.det = None
    /\ res.err /= NoError
    /\ op.entry.state /= None => res.err = "NotImplementedError"

C9_Witness ==
  /\ FetchedOtherKind
  /\ op.detector_type = "adversarial"
  /\ op.entry.state /= None
  /\ Get(pickle_load(op.entry.meta[1]), "name") = "OutlierSeq2Seq"
  /\ res.err = "NotImplementedError"

\* C10: the detector a fetch of an AdversarialAE artifact set returns is
\* the one load_detector returns on the directory the fetch populated.
C10_FetchDelegatesToLoad ==
  (op.name = "fetch" /\ res.err = NoError) =>
    /\ load_detector(fs).err = NoError
    /\ load_detector(fs).det = res.det

\* The named sub-models of a detector of a kind with sub-models: the file
\* of each under model/, the object, and whether a tf.keras.Sequential
\* (or else a tf.keras.Model) is expected.
SubModel(file, obj, sequential) == [file |-> file, obj |-> obj, sequential |-> sequential]

hidden_sub_models(detector) ==
  IF detector.model_hl = None THEN <<>>
  ELSE [i \in 1..Len(detector.model_hl[1]) |->
          SubModel(hl_name(i - 1), detector.model_hl[1][i], FALSE)]

named_sub_models(detector) ==
  CASE kind_of(detector) = "OutlierAE" ->
         << SubModel("encoder_net.h5", detector.ae.encoder.encoder_net, TRUE),
            SubModel("decoder_net.h5", detector.ae.decoder.decoder_net, TRUE),
            SubModel("ae.ckpt", detector.ae, FALSE) >>
    [] kind_of(detector) = "OutlierVAE" ->
         << SubModel("encoder_net.h5", detector.vae.encoder.encoder_net, TRUE),
            SubModel("decoder_net.h5", detector.vae.decoder.decoder_net, TRUE),
            SubModel("vae.ckpt", detector.vae, FALSE) >>
    [] kind_of(detector) = "OutlierAEGMM" ->
         << SubModel("encoder_net.h5", detector.aegmm.encoder, TRUE),
            SubModel("decoder_net.h5", detector.aegmm.decoder, TRUE),
            SubModel("gmm_density_net.h5", detector.aegmm.gmm_density, TRUE),
            SubModel("aegmm.ckpt", detector.aegmm, FALSE) >>
    [] kind_of(detector) = "OutlierVAEGMM" ->
         << SubModel("encoder_net.h5", detector.vaegmm.encoder.encoder_net, TRUE),
            SubModel("decoder_net.h5", detector.vaegmm.decoder, TRUE),
            SubModel("gmm_density_net.h5", detector.vaegmm.gmm_density, TRUE),
            SubModel("vaegmm.ckpt", detector.vaegmm, FALSE) >>
    [] kind_of(detector) = "OutlierSeq2Seq" ->
         << SubModel("threshold_net.h5", detector.seq2seq.threshold_net, TRUE),
            SubModel("seq2seq.ckpt", detector.seq2seq, FALSE) >>
    [] kind_of(detector) = "AdversarialAE" ->
         << SubModel("encoder_net.h5", detector.ae.encoder.encoder_net, TRUE),
            SubModel("decoder_net.h5", detector.ae.decoder.decoder_net, TRUE),
            SubModel("ae.ckpt", detector.ae, FALSE),
            SubModel("model.h5", detector.model, FALSE) >>
           \o hidden_sub_models(detector)

\* The sub-model has the structural type save expects of it.
conforms(sm) == IF sm.sequential THEN IsSequential(sm.obj) ELSE IsKerasModel(sm.obj)

\* What a save writes for a conforming sub-model.
artifact_of(sm) == IF sm.file \in {"encoder_net.h5", "decoder_net.h5",
                                    "gmm_density_net.h5", "threshold_net.h5",
                                    "model.h5"}
                   THEN h5_save(sm.obj) ELSE ckpt_save(sm.obj)

\* The warnings of skipped sub-models in a log.
SkipWarnings ==
  {"No encoder saved.", "No decoder saved.", "No ae saved.", "No vae saved.",
   "No classification model saved.", "No GMM density net saved.",
   "No AEGMM saved.", "No VAEGMM saved.", "No threshold net saved.",
   "No Seq2Seq model saved."}

skip_warnings(log) == {i \in 1..Len(log) : log[i] \in SkipWarnings}

\* The last operation was a save of a detector of a kind with sub-models.
SavedWithSubModels ==
  /\ op.name = "save"
  /\ kind_of(op.detector) \in SubModelKinds

\* C11: when a named sub-model of the saved detector (encoder, decoder,
\* density net, composite model, classifier, threshold net, hidden-layer
\* model) is not of the expected structural type, the save completes
\* without raising, warns once for each such sub-model and writes the
\* artifact of every other sub-model.
C11_SkipPolicy ==
  SavedWithSubModels =>
    LET sms == named_sub_models(op.detector)
        bad == {i \in 1..Len(sms) : ~conforms(sms[i])}
    IN  /\ res.err = NoError
        /\ Cardinality(skip_warnings(res.log)) = Cardinality(bad)
        /\ \A i \in (1..Len(sms)) \ bad :
             /\ sms[i].file \in DOMAIN fs.model
             /\ fs.model[sms[i].file] = artifact_of(sms[i])

\* The sub-model files a load of the kind reads from model/.
ModelFiles(kind) ==
  CASE kind = "OutlierAE" -> {"encoder_net.h5", "decoder_net.h5", "ae.ckpt"}
    [] kind = "OutlierVAE" -> {"encoder_net.h5", "decoder_net.h5", "vae.ckpt"}
    [] kind = "OutlierAEGMM" ->
         {"encoder_net.h5", "decoder_net.h5", "gmm_density_net.h5", "aegmm.ckpt"}
    [] kind = "OutlierVAEGMM" ->
         {"encoder_net.h5", "decoder_net.h5", "gmm_density_net.h5", "vaegmm.ckpt"}
    [] kind = "OutlierSeq2Seq" -> {"threshold_net.h5", "seq2seq.ckpt"}
    [] kind = "AdversarialAE" ->
         {"encoder_net.h5", "decoder_net.h5", "ae.ckpt", "model.h5"}

\* The directory has valid metadata and state blobs of a kind with
\* sub-models, and its model/ subdirectory holds some but not all of the
\* kind's sub-model files.
PartialModelDir(f) ==
  /\ has_state(f)
  /\ meta_kind(f) \in SubModelKinds
  /\ f.model_isdir
  /\ ModelFiles(meta_kind(f)) \cap listdir_model(f) /= {}
  /\ ~(ModelFiles(meta_kind(f)) \subseteq listdir_model(f))

\* C12: a load of a directory with valid metadata and state blobs of a kind
\* with sub-models whose model/ subdirectory holds some but not all of the
\* kind's sub-model files returns a detector, logs a warning and does not
\* raise.
C12_DegradedLoad ==
  (op.name = "load" /\ PartialModelDir(fs)) =>
    /\ res.err = NoError
    /\ res.det /= None
    /\ res.log /= <<>>

\* The last save raised after its kind check, while writing artifacts.
FailedWhileWriting(o, r) ==
  /\ o.name = "save"
  /\ r.err \notin {NoError, NotSupportedBySave}

\* The blobs a save of the detector writes before any sub-model artifact.
blobs_written(detector) ==
  LET kind == kind_of(detector)
  IN  [n \in {"meta.pickle", kind \o ".pickle"} |->
         IF n = "meta.pickle" THEN pickle_dump(detector.meta)
         ELSE pickle_dump(state_of(kind, detector))]

\* The artifacts a save of an AdversarialAE writes before it raises on the
\* first hidden-layer model that has no save_weights.
artifacts_before_failure(detector) ==
  LET sms == named_sub_models(detector)
      failing == {i \in 5..Len(sms) : ~conforms(sms[i])}
      first == CHOOSE i \in failing : \A j \in failing : i <= j
      done == {i \in 1..(first - 1) : conforms(sms[i])}
  IN  [n \in {sms[i].file : i \in done} |->
         artifact_of(sms[CHOOSE i \in done : sms[i].file = n])]

\* C14: when a save raises while writing sub-model artifacts, the metadata
\* and state blobs it wrote stay in the directory as written, every artifact
\* it wrote before raising stays as written, and every other file keeps the
\* contents it had before the call: nothing is removed or restored.
C14_NoRollback ==
  [][(FailedWhileWriting(op', res') /\ nops' = nops + 1) =>
       /\ fs'.isdir /\ fs'.model_isdir
       /\ Overlaid(fs.top, blobs_written(op'.detector), fs'.top)
       /\ Overlaid(fs.model, artifacts_before_failure(op'.detector), fs'.model)]_vars

C14_Witness ==
  /\ FailedWhileWriting(op, res)
  /\ prev.op.name = "save"
  /\ prev.res.err = NoError
  /\ kind_of(prev.op.detector) = kind_of(op.detector)
  /\ blobs_written(prev.op.detector) /= blobs_written(op.detector)
  /\ fs.top["AdversarialAE.pickle"] = pickle_dump(state_of("AdversarialAE", op.detector))
  /\ "model_hl_0.ckpt" \in DOMAIN fs.model
  /\ "model_hl_1.ckpt" \notin DOMAIN fs.model

GmmKinds == {"OutlierAEGMM", "OutlierVAEGMM"}

GmmFields == {"phi", "mu", "cov", "L", "log_det_cov"}

\* The directory holds the blobs of a GMM kind and every sub-model file of it.
CompleteGmmDir(f) ==
  /\ has_state(f)
  /\ meta_kind(f) \in GmmKinds
  /\ f.model_isdir
  /\ ModelFiles(meta_kind(f)) \subseteq listdir_model(f)

\* The mapping stored in the directory's state blob.
stored_state(f) == pickle_load(f.top[meta_kind(f) \o ".pickle"])

Logged(log, msg) == \E i \in 1..Len(log) : log[i] = msg

\* C16: a load of a complete directory of an OutlierAEGMM or OutlierVAEGMM
\* succeeds whether or not the five stored fields phi, mu, cov, L,
\* log_det_cov are tensors; the unfit warning is logged exactly when one of
\* the five is not a tensor; the five fields of the returned detector equal
\* the stored values.
C16_GmmUnfit ==
  (op.name = "load" /\ CompleteGmmDir(fs)) =>
    /\ res.err = NoError
    /\ \A field \in GmmFields : res.det[1][field] = Get(stored_state(fs), field)
    /\ Logged(res.log, "Loaded detector has not been fit.")
         <=> (\E field \in GmmFields : ~is_tensor(Get(stored_state(fs), field)))

C16_Witness ==
  /\ op.name = "load"
  /\ CompleteGmmDir(fs)
  /\ prev.op.name = "save"
  /\ prev.op.detector = PartFitAEGMM
  /\ res.err = NoError
  /\ is_tensor(res.det[1].phi)
  /\ res.det[1].mu /= None
  /\ ~is_tensor(res.det[1].mu)
  /\ res.det[1].cov = None
  /\ Logged(res.log, "Loaded detector has not been fit.")

\* The kinds without sub-models.
NoSubModelKinds == DEFAULT_DETECTORS \ SubModelKinds

\* C17: a save of an IForest, Mahalanobis, SpectralResidual or
\* OutlierProphet neither creates model/ nor creates, changes or removes a
\* file under it; of the top-level files it writes the metadata blob and the
\* state blob and nothing else.
C17_NoModelArtifacts ==
  [][(op'.name = "save" /\ nops' = nops + 1
        /\ kind_of(op'.detector) \in NoSubModelKinds) =>
       /\ res'.err = NoError
       /\ fs'.model_isdir = fs.model_isdir
       /\ fs'.model = fs.model
       /\ Overlaid(fs.top, blobs_written(op'.detector), fs'.top)]_vars

C17_Witness ==
  /\ op.name = "save"
  /\ kind_of(op.detector) \in NoSubModelKinds
  /\ res.err = NoError
  /\ fs.isdir
  /\ ~fs.model_isdir
  /\ DOMAIN fs.top = {"meta.pickle", kind_of(op.detector) \o ".pickle"}

C17_WitnessKept ==
  /\ op.name = "save"
  /\ kind_of(op.detector) \in NoSubModelKinds
  /\ prev.op.name = "save"
  /\ kind_of(prev.op.detector) \in SubModelKinds
  /\ fs.model_isdir
  /\ fs.model = written_by(prev.op.detector).model
  /\ fs.model /= <<>>

\* The errors of a load that finds no supported kind or no blob.
BlobErrors ==
  {"ValueError: not supported by load_detector", "FileNotFoundError: meta.pickle",
   "FileNotFoundError: state"}

\* C18: while every save so far either completed or was rejected for an
\* unsupported kind, a directory that exists holds a metadata blob naming a
\* kind of the closed set and the state blob named after that kind, and a
\* load does not fail with an unsupported-kind or missing-blob error.
C18_BlobsConsistent ==
  (saves_clean /\ fs.isdir) =>
    /\ has_meta(fs)
    /\ meta_kind(fs) \in DEFAULT_DETECTORS
    /\ has_state(fs)
    /\ op.name = "load" => res.err \notin BlobErrors

C18_Witness ==
  /\ saves_clean
  /\ op.name = "load"
  /\ prev.op.name = "save"
  /\ prev.res.err = NotSupportedBySave
  /\ fs.isdir
  /\ meta_kind(fs) \in DEFAULT_DETECTORS
  /\ res.err = NoError

\* C19: a save rejected for an unsupported kind leaves the filesystem as it
\* was: the directory is not created when absent and no metadata, state or
\* model file is written or modified.
C19_RejectedSaveNoEffect ==
  [][(op'.name = "save" /\ nops' = nops + 1
        /\ kind_of(op'.detector) \notin DEFAULT_DETECTORS) =>
       /\ res'.err = NotSupportedBySave
       /\ res'.log = <<>>
       /\ fs' = fs]_vars

C19_Witness ==
  /\ op.name = "save"
  /\ kind_of(op.detector) \notin DEFAULT_DETECTORS
  /\ res.err = NotSupportedBySave
  /\ fs = NoDir

\* The place of an event in the order the claim gives: metadata read, state
\* blob read, sub-model artifacts loaded, detector constructed, direct state
\* fields assigned, metadata attached.
Rank(event) ==
  CASE event = "meta" -> 1
    [] event = "state" -> 2
    [] event = "construct" -> 4
    [] event = "assign" -> 5
    [] event = "attach" -> 6
    [] OTHER -> 3

\* The number of load_tf_* calls a load of the kind makes.
ArtifactLoads(kind) == IF kind = "AdversarialAE" THEN 3 ELSE 1

\* C13: in a load of a kind with sub-models the events occur in the order
\* metadata read, state blob read, sub-model artifacts loaded, detector
\* constructed, direct state fields assigned, metadata attached; when the
\* detector is constructed all sub-model artifacts of the kind were loaded
\* and the loaded sub-model is the constructor's argument; a successful load
\* went through all of the events and its last one attached the metadata.
C13_LoadOrdering ==
  LET l == run.loader
  IN  (l.pc \in {"running", "done", "failed"} /\ l.detector_name \in SubModelKinds) =>
        /\ \A i, j \in 1..Len(l.events) :
             i < j => /\ Rank(l.events[i]) <= Rank(l.events[j])
                      /\ Rank(l.events[i]) = Rank(l.events[j]) => Rank(l.events[i]) = 3
        /\ l.det /= None =>
             /\ Cardinality({i \in 1..Len(l.events) : Rank(l.events[i]) = 3})
                  = ArtifactLoads(l.detector_name)
             /\ sub_model(l.detector_name, l.det[1]) = l.models.main
        /\ l.pc = "done" =>
             /\ {Rank(l.events[i]) : i \in 1..Len(l.events)} = 1..6
             /\ l.events[Len(l.events)] = "attach"
             /\ l.det[1].meta = l.meta_dict

C13_Witness ==
  /\ run.loader.pc = "done"
  /\ run.loader.detector_name = "AdversarialAE"
  /\ run.loader.events =
       <<"meta", "state", "load_tf_ae", "load_tf_model", "load_tf_hl",
         "construct", "assign", "attach">>
  /\ run.loader.det[1].ae = run.loader.models.main
  /\ run.loader.det[1].ae /= NoneModel

\* C15: a load that reads the metadata blob and then the state blob while
\* a save has written its metadata blob and not yet taken its next step
\* observes a partially written directory: it holds the metadata of that
\* save, and it fails on the missing state blob when no earlier save left
\* one, or else holds the state blob of an earlier save, which it combines
\* with the new metadata in the detector it returns.
C15_TornLoad ==
  LET l == run.loader
  IN  (l.pc \in {"running", "done", "failed"}
         /\ l.window.meta > 0 /\ l.window.state = l.window.meta) =>
        /\ l.stamps.meta = l.window.meta
        /\ l.stamps.state < l.window.meta
        /\ l.stamps.state = 0 <=> l.err = "FileNotFoundError: state"
        /\ l.pc = "done" => (l.det[1].meta = l.meta_dict /\ l.stamps.state > 0)

C15_Witness ==
  /\ run.loader.pc = "done"
  /\ run.loader.window = [meta |-> 2, state |-> 2]
  /\ run.loader.stamps.meta = 2
  /\ run.loader.stamps.state = 1
  /\ run.saver.n = 2
  /\ run.loader.det[1].meta = run.saver.detector.meta
  /\ run.loader.det[1].threshold /= run.saver.detector.threshold

C15_WitnessMissingState ==
  /\ run.loader.pc = "failed"
  /\ run.loader.err = "FileNotFoundError: state"
  /\ run.loader.window = [meta |-> 1, state |-> 1]
  /\ run.loader.stamps.meta = 1
  /\ run.saver.n = 1
  /\ run.loader.meta_dict = run.saver.detector.meta

\* A load that read the metadata and state blobs of the running save and
\* the sub-model artifacts of an earlier one, and returned a detector.
C15_WitnessOldArtifacts ==
  /\ run.loader.pc = "done"
  /\ run.saver.n = 2
  /\ run.loader.stamps = [meta |-> 2, state |-> 2, model |-> 1]
  /\ run.loader.det[1].meta = run.saver.detector.meta

====
